---- MODULE Spec2Model ----
(***************************************************************************)
(* A model of xmlem: the arena-based Document (src/src/document.rs), its   *)
(* loader Document::from_reader, the canonicalizer Document::sort and the  *)
(* serializer (src/src/display.rs).                                        *)
(*                                                                         *)
(* Strings are TLA+ strings; `\o` is Rust's string concatenation.  An      *)
(* Option<T> is a sequence: <<>> is None and <<x>> is Some(x).             *)
(***************************************************************************)
EXTENDS Integers, Sequences, FiniteSets, TLC

VARIABLES
    nodes,          \* Document.nodes: SlotMap<DocKey, NodeValue>
    parents,        \* Document.parents: SparseSecondaryMap<DocKey, Element>
    attrs,          \* Document.attrs: SparseSecondaryMap<DocKey, IndexMap<QName, String>>
    root_key,       \* Document.root_key: Option of the root's DocKey (None before the root tag)
    before,         \* Document.before: Vec<Node>
    after,          \* Document.after: Vec<Node>
    decl,           \* Document.decl: Option<Declaration>
    element_stack,  \* from_reader: the stack of open elements
    r,              \* from_reader: the quick_xml Reader (its stack of open tag names)
    pc,             \* position of the program: "prolog", "body", "ok", "err", "panic"
    result,         \* from_reader: the ReadError returned, if any
    input,          \* the lexemes read so far, in order
    call,           \* the last operation called, with its arguments
    prev,           \* the Document as it was before the last operation
    ops,            \* the number of operations called on the loaded document
    chars,          \* the characters of the string handed to process_entities
    written,        \* what the last call of the serializer wrote
    heap,           \* the Rc<RefCell<..>> allocations of the Rc-based tree, by address
    roots,          \* the roots of the XmlemDocuments: the one loaded, then its clones
    ret             \* what the last query returned

vars == <<nodes, parents, attrs, root_key, before, after, decl,
          element_stack, r, pc, result, input, call, prev, ops, chars, written,
          heap, roots, ret>>

docVars == <<nodes, parents, attrs, root_key, before, after, decl>>

(***************************************************************************)
(* Bounds of the model.                                                    *)
(***************************************************************************)
\* the longest input, in lexemes, the loader is given
MaxEvents == 4
\* the number of slots the arena may grow to
MaxSlots == 4
\* the number of steps of a run that edits a document: the events read to
\* load it and the calls made on it
MaxSteps == 6
\* the longest string, in characters, handed to process_entities
MaxChars == 3

(***************************************************************************)
(* Generic helpers.                                                        *)
(***************************************************************************)
None == <<>>

Some(x) == <<x>>

IsSome(o) == o # <<>>

Range(s) == {s[i] : i \in 1..Len(s)}

Min(a, b) == IF a <= b THEN a ELSE b

RemoveAt(s, i) == SubSeq(s, 1, i - 1) \o SubSeq(s, i + 1, Len(s))

InsertAt(s, i, x) == SubSeq(s, 1, i - 1) \o <<x>> \o SubSeq(s, i, Len(s))

\* Iterator::position: the first index whose element is x, 0 when there is none
Position(s, x) ==
    IF \E i \in 1..Len(s) : s[i] = x
    THEN CHOOSE i \in 1..Len(s) : s[i] = x /\ \A j \in 1..(i - 1) : s[j] # x
    ELSE 0

RECURSIVE ConcatAll(_)
ConcatAll(ss) == IF ss = <<>> THEN "" ELSE Head(ss) \o ConcatAll(Tail(ss))

RECURSIVE ConcatSeqs(_)
ConcatSeqs(ss) == IF ss = <<>> THEN <<>> ELSE Head(ss) \o ConcatSeqs(Tail(ss))

RECURSIVE Spaces(_)
Spaces(n) == IF n <= 0 THEN "" ELSE " " \o Spaces(n - 1)

(***************************************************************************)
(* Ordering of the strings the model uses: Rust compares str bytewise.     *)
(* StrRank gives each string of the universe its place in that order.      *)
(***************************************************************************)
Names == <<"a", "b", "c", "id", "k">>

Values == <<"", "1", "2", "v">>

StrRank(s) ==
    CASE s = ""   -> 0
      [] s = "1"  -> 1
      [] s = "2"  -> 2
      [] s = "a"  -> 3
      [] s = "b"  -> 4
      [] s = "c"  -> 5
      [] s = "id" -> 6
      [] s = "k"  -> 7
      [] s = "v"  -> 8
      [] s = "x"  -> 9

\* Ord::cmp on strings: "Less", "Equal" or "Greater"
CmpInt(a, b) == IF a < b THEN "Less" ELSE IF a > b THEN "Greater" ELSE "Equal"

CmpStr(a, b) == CmpInt(StrRank(a), StrRank(b))

(***************************************************************************)
(* slotmap::SlotMap.  A slot holds a version, odd while it is occupied and *)
(* even while it is vacant; a key is a slot index with the version the     *)
(* slot had when the key was made.  Freed slots are reused last-freed      *)
(* first.                                                                  *)
(***************************************************************************)
DocKey(i, v) == [idx |-> i, version |-> v]

\* what a freed slot holds: its payload has been dropped
Vacant == [kind |-> "Vacant", name |-> "", text |-> "", children |-> <<>>]

EmptySlotMap == [slots |-> <<>>, free |-> <<>>]

SlotContains(sm, k) ==
    /\ k.idx \in 1..Len(sm.slots)
    /\ sm.slots[k.idx].version = k.version

\* SlotMap::get
SlotGet(sm, k) == IF SlotContains(sm, k) THEN Some(sm.slots[k.idx].value) ELSE None

\* whether SlotMap::insert has room within the model's bound
SlotHasRoom(sm) == sm.free # <<>> \/ Len(sm.slots) < MaxSlots

\* a key made with the version the freed slot's last key had
SlotNextKeyOldVersion(sm) ==
    IF sm.free # <<>>
    THEN DocKey(Head(sm.free), sm.slots[Head(sm.free)].version - 1)
    ELSE DocKey(Len(sm.slots) + 1, 1)

\* the key SlotMap::insert will return
SlotNextKey(sm) ==
    IF sm.free # <<>>
    THEN DocKey(Head(sm.free), sm.slots[Head(sm.free)].version + 1)
    ELSE DocKey(Len(sm.slots) + 1, 1)

\* SlotMap::insert
SlotInsert(sm, v) ==
    LET k == SlotNextKey(sm) IN
    IF sm.free # <<>>
    THEN [slots |-> [sm.slots EXCEPT ![k.idx] = [version |-> k.version, value |-> v]],
          free  |-> Tail(sm.free)]
    ELSE [slots |-> Append(sm.slots, [version |-> k.version, value |-> v]),
          free  |-> sm.free]

\* SlotMap::remove
SlotRemove(sm, k) ==
    IF SlotContains(sm, k)
    THEN [slots |-> [sm.slots EXCEPT ![k.idx] =
                        [version |-> k.version + 1, value |-> Vacant]],
          free  |-> <<k.idx>> \o sm.free]
    ELSE sm

\* IndexMut: nodes[k] = v
SlotSet(sm, k, v) ==
    IF SlotContains(sm, k)
    THEN [sm EXCEPT !.slots[k.idx].value = v]
    ELSE sm

\* the keys of the occupied slots
SlotKeys(sm) ==
    {DocKey(i, sm.slots[i].version) : i \in {j \in 1..Len(sm.slots) : sm.slots[j].version % 2 = 1}}

(***************************************************************************)
(* slotmap::SparseSecondaryMap: at most one entry per slot index, holding  *)
(* the version of the key it was stored under.                             *)
(***************************************************************************)
EmptySecondary == <<>>

SecContains(m, k) == k.idx \in DOMAIN m /\ m[k.idx].version = k.version

\* SparseSecondaryMap::get
SecGet(m, k) == IF SecContains(m, k) THEN Some(m[k.idx].value) ELSE None

\* SparseSecondaryMap::insert: an entry of an older key of the slot is replaced
SecInsert(m, k, v) ==
    IF k.idx \in DOMAIN m /\ m[k.idx].version > k.version
    THEN m
    ELSE [i \in (DOMAIN m) \cup {k.idx} |->
            IF i = k.idx THEN [version |-> k.version, value |-> v] ELSE m[i]]

\* SparseSecondaryMap::remove
SecRemove(m, k) ==
    IF SecContains(m, k) THEN [i \in (DOMAIN m) \ {k.idx} |-> m[i]] ELSE m

(***************************************************************************)
(* Node payloads (NodeValue) and node handles (Node).                      *)
(***************************************************************************)
\* NodeValue::Element(ElementValue { name, children })
ElementValue(name, children) ==
    [kind |-> "Element", name |-> name, text |-> "", children |-> children]

\* NodeValue::Text, CData, Comment, DocumentType, ProcessingInstruction
LeafValue(kind, text) == [kind |-> kind, name |-> "", text |-> text, children |-> <<>>]

\* the Node enum: the variant and the key it wraps; the variant of a leaf
\* handle is the name of its payload's variant but for CDataSection
Node(kind, key) == [kind |-> kind, key |-> key]

NodeKindOf(valueKind) == IF valueKind = "CData" THEN "CDataSection" ELSE valueKind

ElementNode(key) == Node("Element", key)

\* the Document as one record
Doc == [nodes |-> nodes, parents |-> parents, attrs |-> attrs, root_key |-> root_key,
        before |-> before, after |-> after, decl |-> decl]

\* the payload of a live node
ValueOf(d, key) == d.nodes.slots[key.idx].value

IsLive(d, key) == SlotContains(d.nodes, key)

IsElement(d, key) == IsLive(d, key) /\ ValueOf(d, key).kind = "Element"

ChildrenOf(d, key) == ValueOf(d, key).children

\* the handles of the live elements
Elements(d) == {k \in SlotKeys(d.nodes) : ValueOf(d, k).kind = "Element"}

\* the handle of a live node, as the Node enum
NodeOf(d, key) == Node(NodeKindOf(ValueOf(d, key).kind), key)

SetChildren(d, key, children) ==
    [d EXCEPT !.nodes = SlotSet(d.nodes, key, ElementValue(ValueOf(d, key).name, children))]

\* Document::new
NewDocument(root_name) ==
    LET sm == SlotInsert(EmptySlotMap, ElementValue(root_name, <<>>)) IN
    [nodes |-> sm, parents |-> EmptySecondary, attrs |-> EmptySecondary,
     root_key |-> Some(SlotNextKey(EmptySlotMap)),
     before |-> <<>>, after |-> <<>>, decl |-> None]

\* Document::root
Root(d) == d.root_key[1]

(***************************************************************************)
(* The Element handle's methods.                                           *)
(***************************************************************************)
\* Element::parent
Parent(d, key) == SecGet(d.parents, key)

\* Element::append_new_element
AppendNewElement(d, parent, name, at) ==
    LET new_key == SlotNextKey(d.nodes)
        d1 == [d EXCEPT !.nodes = SlotInsert(d.nodes, ElementValue(name, <<>>)),
                        !.attrs = SecInsert(d.attrs, new_key, at),
                        !.parents = SecInsert(d.parents, new_key, parent)]
    IN SetChildren(d1, parent, Append(ChildrenOf(d1, parent), ElementNode(new_key)))

\* Element::append_new_element_after; the caller has checked that the sibling has a parent
AppendNewElementAfter(d, sibling, name, at) ==
    LET parent == Parent(d, sibling)[1]
        new_key == SlotNextKey(d.nodes)
        d1 == [d EXCEPT !.nodes = SlotInsert(d.nodes, ElementValue(name, <<>>)),
                        !.attrs = SecInsert(d.attrs, new_key, at),
                        !.parents = SecInsert(d.parents, new_key, parent)]
        i == Position(ChildrenOf(d1, parent), ElementNode(sibling))
    IN SetChildren(d1, parent, InsertAt(ChildrenOf(d1, parent), i + 1, ElementNode(new_key)))

\* Element::append_text, append_cdata, append_comment
AppendLeaf(d, el, kind, text) ==
    LET new_key == SlotNextKey(d.nodes)
        d1 == [d EXCEPT !.nodes = SlotInsert(d.nodes, LeafValue(kind, text)),
                        !.parents = SecInsert(d.parents, new_key, el)]
    IN SetChildren(d1, el, Append(ChildrenOf(d1, el), Node(NodeKindOf(kind), new_key)))

AppendText(d, el, text) == AppendLeaf(d, el, "Text", text)

AppendCData(d, el, text) == AppendLeaf(d, el, "CData", text)

AppendComment(d, el, text) == AppendLeaf(d, el, "Comment", text)

\* remove_child that forgets the parent table
RemoveChildKeepsParent(d, parent, node) ==
    LET i == Position(ChildrenOf(d, parent), node) IN
    IF i = 0
    THEN d
    ELSE LET d1 == SetChildren(d, parent, RemoveAt(ChildrenOf(d, parent), i)) IN
         [d1 EXCEPT !.nodes = SlotRemove(d1.nodes, node.key)]

\* Element::remove_child
RemoveChild(d, parent, node) ==
    LET i == Position(ChildrenOf(d, parent), node) IN
    IF i = 0
    THEN d
    ELSE LET d1 == SetChildren(d, parent, RemoveAt(ChildrenOf(d, parent), i)) IN
         [d1 EXCEPT !.nodes = SlotRemove(d1.nodes, node.key),
                    !.parents = SecRemove(d1.parents, node.key)]

\* Element::set_text
RECURSIVE RemoveChildren(_, _)
RemoveChildren(d, el) ==
    IF ChildrenOf(d, el) = <<>>
    THEN d
    ELSE RemoveChildren(RemoveChild(d, el, Head(ChildrenOf(d, el))), el)

SetText(d, el, text) == AppendText(RemoveChildren(d, el), el, text)

\* append_element that does not detach the element from its old parent
AppendElementNoDetach(d, parent, element) ==
    LET d2 == [d EXCEPT !.parents = SecInsert(d.parents, element, parent)]
    IN SetChildren(d2, parent, Append(ChildrenOf(d2, parent), ElementNode(element)))

\* Element::append_element
AppendElement(d, parent, element) ==
    LET old == Parent(d, element)
        d1 == IF IsSome(old) /\ IsElement(d, old[1])
              THEN LET i == Position(ChildrenOf(d, old[1]), ElementNode(element)) IN
                   [(IF i = 0 THEN d
                     ELSE SetChildren(d, old[1], RemoveAt(ChildrenOf(d, old[1]), i)))
                    EXCEPT !.parents = SecRemove(d.parents, element)]
              ELSE d
        d2 == [d1 EXCEPT !.parents = SecInsert(d1.parents, element, parent)]
    IN SetChildren(d2, parent, Append(ChildrenOf(d2, parent), ElementNode(element)))

\* IndexMap::insert: a new key goes last, an old key keeps its place
IndexMapInsert(m, key, value) ==
    IF \E i \in 1..Len(m) : m[i].key = key
    THEN [i \in 1..Len(m) |-> IF m[i].key = key THEN [key |-> key, value |-> value] ELSE m[i]]
    ELSE Append(m, [key |-> key, value |-> value])

\* IndexMap::get
IndexMapGet(m, key) ==
    IF \E i \in 1..Len(m) : m[i].key = key
    THEN Some(m[CHOOSE i \in 1..Len(m) : m[i].key = key].value)
    ELSE None

\* Element::set_attribute
SetAttribute(d, el, name, value) ==
    LET old == SecGet(d.attrs, el)
        m == IF IsSome(old) THEN old[1] ELSE <<>>
    IN [d EXCEPT !.attrs = SecInsert(d.attrs, el, IndexMapInsert(m, name, value))]

\* Element::attributes: no entry reads as no attributes
AttributesOf(d, el) == LET a == SecGet(d.attrs, el) IN IF IsSome(a) THEN a[1] ELSE <<>>

(***************************************************************************)
(* Document::set_doctype and Document::doctype.                            *)
(***************************************************************************)
\* the first index of before that holds a DocumentType node, 0 when there is none
DoctypeIndex(bf) ==
    IF \E i \in 1..Len(bf) : bf[i].kind = "DocumentType"
    THEN CHOOSE i \in 1..Len(bf) :
            bf[i].kind = "DocumentType" /\ \A j \in 1..(i - 1) : bf[j].kind # "DocumentType"
    ELSE 0

\* set_doctype(Some(v)) without the return that ends the replacement: the
\* new node is put in the old one's place and at the front as well
SetDoctypeSomeNoReturn(d, v) ==
    LET new_key == SlotNextKey(d.nodes)
        id == Node("DocumentType", new_key)
        d1 == [d EXCEPT !.nodes = SlotInsert(d.nodes, LeafValue("DocumentType", v))]
        i == DoctypeIndex(d1.before)
    IN IF i # 0
       THEN [d1 EXCEPT !.nodes = SlotRemove(d1.nodes, d1.before[i].key),
                       !.before = <<id>> \o [d1.before EXCEPT ![i] = id]]
       ELSE [d1 EXCEPT !.before = <<id>> \o d1.before]

\* Document::set_doctype(Some(v))
SetDoctypeSome(d, v) ==
    LET new_key == SlotNextKey(d.nodes)
        id == Node("DocumentType", new_key)
        d1 == [d EXCEPT !.nodes = SlotInsert(d.nodes, LeafValue("DocumentType", v))]
        i == DoctypeIndex(d1.before)
    IN IF i # 0
       THEN [d1 EXCEPT !.nodes = SlotRemove(d1.nodes, d1.before[i].key),
                       !.before = [d1.before EXCEPT ![i] = id]]
       ELSE [d1 EXCEPT !.before = <<id>> \o d1.before]

\* set_doctype(None) that removes the first entry of before
SetDoctypeNoneFirst(d) ==
    LET i == DoctypeIndex(d.before) IN
    IF i # 0 THEN [d EXCEPT !.before = RemoveAt(d.before, 1)] ELSE d

\* Document::set_doctype(None)
SetDoctypeNone(d) ==
    LET i == DoctypeIndex(d.before) IN
    IF i # 0 THEN [d EXCEPT !.before = RemoveAt(d.before, i)] ELSE d

\* Document::doctype
Doctype(d) ==
    LET i == DoctypeIndex(d.before) IN
    IF i # 0 THEN Some(ValueOf(d, d.before[i].key).text) ELSE None

(***************************************************************************)
(* The canonicalizer: ord_elem, ord_node, Document::sort_nodes,            *)
(* sort_node_value, sort_attrs and sort.                                   *)
(***************************************************************************)
\* slice::sort_by on a slice of n items: a stable insertion sort (the
\* standard library sorts slices of up to 20 items this way); less[i][j]
\* says whether item i compares Less than item j, and the result lists the
\* items' original indices in sorted order
RECURSIVE InsertTail(_, _, _)
InsertTail(sorted, x, less) ==
    IF sorted = <<>>
    THEN <<x>>
    ELSE LET y == sorted[Len(sorted)] IN
         IF less[x][y]
         THEN Append(InsertTail(SubSeq(sorted, 1, Len(sorted) - 1), x, less), y)
         ELSE Append(sorted, x)

RECURSIVE SortFrom(_, _, _, _)
SortFrom(sorted, i, n, less) ==
    IF i > n THEN sorted ELSE SortFrom(InsertTail(sorted, i, less), i + 1, n, less)

SortBy(n, less) == SortFrom(<<>>, 1, n, less)

\* the first comparison of a[i] with b[i], i in from..n, that is not Equal
RECURSIVE CmpPrefix(_, _, _, _)
CmpPrefix(a, b, i, n) ==
    IF i > n
    THEN "Equal"
    ELSE LET o == CmpStr(a[i], b[i]) IN
         IF o # "Equal" THEN o ELSE CmpPrefix(a, b, i + 1, n)

AttrKeys(m) == [i \in 1..Len(m) |-> m[i].key]

AttrValues(m) == [i \in 1..Len(m) |-> m[i].value]

\* ord_elem
OrdElem(ec1, ec2) ==
    LET name_ord == CmpStr(ec1.elem_val.name, ec2.elem_val.name)
        e1_id == IndexMapGet(ec1.attrs, "id")
        e2_id == IndexMapGet(ec2.attrs, "id")
        id_ord == IF IsSome(e1_id) /\ IsSome(e2_id) THEN CmpStr(e1_id[1], e2_id[1]) ELSE "Equal"
        min_len == Min(Len(ec1.attrs), Len(ec2.attrs))
        names_ord == CmpPrefix(AttrKeys(ec1.attrs), AttrKeys(ec2.attrs), 1, min_len)
        num_attrs_ord == CmpInt(Len(ec1.attrs), Len(ec2.attrs))
        values_ord == CmpPrefix(AttrValues(ec1.attrs), AttrValues(ec2.attrs), 1, min_len)
    IN IF name_ord # "Equal" THEN name_ord
       ELSE IF id_ord # "Equal" THEN id_ord
       ELSE IF names_ord # "Equal" THEN names_ord
       ELSE IF num_attrs_ord # "Equal" THEN num_attrs_ord
       ELSE values_ord

\* Node::to_ordinal: the node's place of first appearance among its siblings
ToOrdinal(nodes_orig, n) == Position(nodes_orig, n)

\* ord_node
OrdNode(nodes_orig, n1, n2) == CmpInt(ToOrdinal(nodes_orig, n1), ToOrdinal(nodes_orig, n2))

\* xs.sort_by(ord_node)
SortByOrdinal(nodes_orig, xs) ==
    LET less == [i \in 1..Len(xs) |-> [j \in 1..Len(xs) |->
                    OrdNode(nodes_orig, xs[i], xs[j]) = "Less"]]
        perm == SortBy(Len(xs), less)
    IN [i \in 1..Len(xs) |-> xs[perm[i]]]

\* the loop of sort_nodes: what it has gathered after the first i nodes
RECURSIVE Gather(_, _, _)
Gather(d, ns, i) ==
    IF i = 0
    THEN [pre |-> <<>>, elems |-> <<>>, has_text |-> FALSE, post |-> <<>>, panic |-> FALSE]
    ELSE LET g == Gather(d, ns, i - 1)
             node == ns[i]
         IN IF g.panic THEN g
            ELSE CASE node.kind = "Element" ->
                        IF SecContains(d.attrs, node.key) /\ IsElement(d, node.key)
                        THEN [g EXCEPT !.elems = Append(@,
                                [pre |-> g.pre, elem |-> node,
                                 attrs |-> SecGet(d.attrs, node.key)[1],
                                 elem_val |-> ValueOf(d, node.key)])]
                        ELSE [g EXCEPT !.panic = TRUE]
                   [] node.kind = "Text" ->
                        [g EXCEPT !.has_text = TRUE, !.post = Append(@, node)]
                   [] node.kind = "CDataSection" -> [g EXCEPT !.pre = Append(@, node)]
                   [] node.kind = "ProcessingInstruction" -> [g EXCEPT !.post = Append(@, node)]
                   [] node.kind = "Comment" -> [g EXCEPT !.pre = Append(@, node)]
                   [] node.kind = "DocumentType" -> [g EXCEPT !.panic = TRUE]

\* the nodes_sorted of sort_nodes: each element after its pre nodes
RECURSIVE EmitElems(_, _, _)
EmitElems(nodes_orig, elems, i) ==
    IF i > Len(elems)
    THEN <<>>
    ELSE SortByOrdinal(nodes_orig, elems[i].pre) \o <<elems[i].elem>>
            \o EmitElems(nodes_orig, elems, i + 1)

\* sort_nodes without the test for text among elements
SortNodesMixed(d, nodes_orig) ==
    IF Len(nodes_orig) < 2
    THEN [panic |-> FALSE, nodes |-> nodes_orig]
    ELSE LET g == Gather(d, nodes_orig, Len(nodes_orig)) IN
         IF g.panic
         THEN [panic |-> TRUE, nodes |-> nodes_orig]
         ELSE LET less == [i \in 1..Len(g.elems) |-> [j \in 1..Len(g.elems) |->
                              OrdElem(g.elems[i], g.elems[j]) = "Less"]]
                  perm == SortBy(Len(g.elems), less)
                  elems == [i \in 1..Len(g.elems) |-> g.elems[perm[i]]]
              IN [panic |-> FALSE,
                  nodes |-> EmitElems(nodes_orig, elems, 1)
                                \o SortByOrdinal(nodes_orig, g.post)]

\* Document::sort_nodes: the sorted sequence, or a panic
SortNodes(d, nodes_orig) ==
    IF Len(nodes_orig) < 2
    THEN [panic |-> FALSE, nodes |-> nodes_orig]
    ELSE LET g == Gather(d, nodes_orig, Len(nodes_orig)) IN
         IF g.panic
         THEN [panic |-> TRUE, nodes |-> nodes_orig]
         ELSE IF g.has_text /\ g.elems # <<>>
         THEN [panic |-> FALSE, nodes |-> nodes_orig]
         ELSE LET less == [i \in 1..Len(g.elems) |-> [j \in 1..Len(g.elems) |->
                              OrdElem(g.elems[i], g.elems[j]) = "Less"]]
                  perm == SortBy(Len(g.elems), less)
                  elems == [i \in 1..Len(g.elems) |-> g.elems[perm[i]]]
              IN [panic |-> FALSE,
                  nodes |-> EmitElems(nodes_orig, elems, 1)
                                \o SortByOrdinal(nodes_orig, g.post)]

\* an attribute table left in insertion order
SortAttrTableUnsorted(m) == m

\* IndexMap::sort_by on the keys
SortAttrTable(m) ==
    LET less == [i \in 1..Len(m) |-> [j \in 1..Len(m) |-> CmpStr(m[i].key, m[j].key) = "Less"]]
        perm == SortBy(Len(m), less)
    IN [i \in 1..Len(m) |-> m[perm[i]]]

\* sort_attrs that leaves every table as it is
SortAttrsSkipped(d) == d

\* Document::sort_attrs
SortAttrs(d) ==
    [d EXCEPT !.attrs = [i \in DOMAIN d.attrs |->
                            [version |-> d.attrs[i].version,
                             value |-> SortAttrTable(d.attrs[i].value)]]]

\* Document::sort_node_value on the root
SortNodeValue(d, key) == SortNodes(d, ChildrenOf(d, key))

\* Document::sort: the document it leaves, and whether it panicked on the way
Sort(d, elements) ==
    LET d1 == SortAttrs(d) IN
    IF ~elements
    THEN [panic |-> FALSE, doc |-> d1]
    ELSE LET b == SortNodes(d1, d1.before) IN
         IF b.panic THEN [panic |-> TRUE, doc |-> d1]
         ELSE LET d2 == [d1 EXCEPT !.before = b.nodes]
                  c == SortNodeValue(d2, Root(d2))
              IN IF c.panic THEN [panic |-> TRUE, doc |-> d2]
                 ELSE LET d3 == SetChildren(d2, Root(d2), c.nodes)
                          a == SortNodes(d3, d3.after)
                      IN IF a.panic THEN [panic |-> TRUE, doc |-> d3]
                         ELSE [panic |-> FALSE, doc |-> [d3 EXCEPT !.after = a.nodes]]

(***************************************************************************)
(* The serializer (display.rs).  The characters of a string are Unicode    *)
(* code points; CodeStr writes a code point back as text.  A raw ASCII     *)
(* control character that a TLA+ string cannot hold is written as a token  *)
(* in braces, a raw character beyond ASCII as a token in square brackets.  *)
(***************************************************************************)
\* the code point of a character of the strings the model uses
CharCode(ch) ==
    CASE ch = "\t" -> 9
      [] ch = "\n" -> 10
      [] ch = " "  -> 32
      [] ch = "1"  -> 49
      [] ch = "2"  -> 50
      [] ch = "a"  -> 97
      [] ch = "b"  -> 98
      [] ch = "c"  -> 99
      [] ch = "d"  -> 100
      [] ch = "i"  -> 105
      [] ch = "k"  -> 107
      [] ch = "v"  -> 118
      [] ch = "x"  -> 120

\* str::chars
Chars(s) == [i \in 1..Len(s) |-> CharCode(SubSeq(s, i, i))]

\* a code point as text
CodeStr(c) ==
    CASE c = 0   -> "{NUL}"
      [] c = 9   -> "\t"
      [] c = 10  -> "\n"
      [] c = 27  -> "{ESC}"
      [] c = 32  -> " "
      [] c = 34  -> "\""
      [] c = 38  -> "&"
      [] c = 39  -> "'"
      [] c = 49  -> "1"
      [] c = 50  -> "2"
      [] c = 60  -> "<"
      [] c = 62  -> ">"
      [] c = 97  -> "a"
      [] c = 98  -> "b"
      [] c = 99  -> "c"
      [] c = 100 -> "d"
      [] c = 105 -> "i"
      [] c = 107 -> "k"
      [] c = 118 -> "v"
      [] c = 120 -> "x"
      [] c = 127 -> "{DEL}"
      [] c = 160 -> "[NBSP]"
      [] c = 233 -> "[E9]"
      [] c = 8232 -> "[LS]"

IsSpecial(c) == c \in {60, 62, 39, 34, 38}

\* char::is_ascii_control
IsAsciiControl(c) == c \in 0..31 \/ c = 127

\* char::is_ascii_whitespace
IsAsciiWhitespace(c) == c \in {32, 9, 10, 12, 13}

\* GeneralCategory::is_separator: Zs, Zl, Zp
IsSeparator(c) == c \in {32, 160, 5760, 8232, 8233, 8239, 8287, 12288} \/ c \in 8192..8202

\* GeneralCategory::is_other, for the code points below U+00A0: Cc
IsOther(c) == c \in 0..31 \/ c \in 127..159

HexDigit(n) == <<"0", "1", "2", "3", "4", "5", "6", "7", "8", "9",
                 "A", "B", "C", "D", "E", "F">>[n + 1]

RECURSIVE HexUpper(_)
HexUpper(n) == IF n < 16 THEN HexDigit(n) ELSE HexUpper(n \div 16) \o HexDigit(n % 16)

\* a hex reference without the padding to four digits
HexRefUnpadded(c) == "&#x" \o HexUpper(c) \o ";"

\* format!("&#x{:>04X};", ch as u32)
HexRef(c) ==
    LET h == HexUpper(c) IN
    "&#x" \o (CASE Len(h) = 1 -> "000" [] Len(h) = 2 -> "00" [] Len(h) = 3 -> "0"
                [] OTHER -> "") \o h \o ";"

\* what process_entities writes for one character
EntityOf(c, mode, allow_separators, is_text) ==
    IF mode = "Standard" /\ c = 38 THEN "&amp;"
    ELSE IF mode = "Standard" /\ c = 39 /\ ~is_text THEN "&apos;"
    ELSE IF mode = "Standard" /\ c = 34 /\ ~is_text THEN "&quot;"
    ELSE IF mode = "Standard" /\ c = 60 THEN "&lt;"
    ELSE IF mode = "Standard" /\ c = 62 THEN "&gt;"
    ELSE IF mode = "Hex" /\ IsSpecial(c) THEN HexRef(c)
    ELSE IF ~IsAsciiWhitespace(c) /\ IsAsciiControl(c) THEN HexRef(c)
    ELSE LET is_ws == c # 160
                        /\ (c = 32 \/ (allow_separators
                                        /\ (IsAsciiWhitespace(c) \/ IsSeparator(c))))
             is_printable == ~(IsSeparator(c) \/ IsOther(c))
         IN IF is_ws \/ is_printable THEN CodeStr(c) ELSE HexRef(c)

\* process_entities on the characters of the input
ProcessChars(cs, mode, allow_separators, is_text) ==
    IF \E i \in 1..Len(cs) :
          IsSpecial(cs[i]) \/ IsAsciiControl(cs[i]) \/ IsSeparator(cs[i]) \/ IsOther(cs[i])
    THEN ConcatAll([i \in 1..Len(cs) |-> EntityOf(cs[i], mode, allow_separators, is_text)])
    ELSE ConcatAll([i \in 1..Len(cs) |-> CodeStr(cs[i])])

\* process_entities
ProcessEntities(inp, mode, allow_separators, is_text) ==
    ProcessChars(Chars(inp), mode, allow_separators, is_text)

\* Config::default
ConfigDefault ==
    [is_pretty |-> FALSE, indent |-> 0, max_line_length |-> 0,
     entity_mode |-> "Standard", indent_text_nodes |-> FALSE]

\* Config::default_pretty
ConfigDefaultPretty ==
    [is_pretty |-> TRUE, indent |-> 2, max_line_length |-> 120,
     entity_mode |-> "Standard", indent_text_nodes |-> TRUE]

\* State::new
StateNew(is_pretty) == [is_pretty |-> is_pretty, indent |-> 0]

\* State::with_indent
WithIndent(context, config) ==
    IF ~config.is_pretty
    THEN context
    ELSE [is_pretty |-> context.is_pretty, indent |-> context.indent + config.indent]

\* State::without_pretty
WithoutPretty(context) == [is_pretty |-> FALSE, indent |-> 0]

\* writeln!(f) when the condition holds
NewlineIf(cond) == IF cond THEN "\n" ELSE ""

\* impl Print for Declaration
PrintDeclaration(dc, context) ==
    "<?xml"
        \o (IF IsSome(dc.version) THEN " version=\"" \o dc.version[1] \o "\"" ELSE "")
        \o (IF IsSome(dc.encoding) THEN " encoding=\"" \o dc.encoding[1] \o "\"" ELSE "")
        \o (IF IsSome(dc.standalone) THEN " standalone=\"" \o dc.standalone[1] \o "\"" ELSE "")
        \o "?>" \o NewlineIf(context.is_pretty)

\* the fold of fmt_attrs and of ElementValue::print: the projected length of
\* the first n attributes
RECURSIVE AttrsLength(_, _)
AttrsLength(m, n) ==
    IF n = 0 THEN 0 ELSE AttrsLength(m, n - 1) + Len(m[n].key) + Len(m[n].value) + 4

\* an attribute value written with its separators kept
AttrValueSeparators(cs, mode) == ProcessChars(cs, mode, TRUE, FALSE)

\* fmt_attrs: process_entities(v, config.entity_mode, false, false)
AttrValue(cs, mode) == ProcessChars(cs, mode, FALSE, FALSE)

\* fmt_attrs
FmtAttrs(tag, config, context, m) ==
    LET line_length == Len(tag) + 2 + AttrsLength(m, Len(m))
        is_newlines == context.is_pretty /\ line_length > config.max_line_length
        ctx == WithIndent(context, config)
        one(i) == m[i].key \o "=\""
                    \o AttrValue(Chars(m[i].value), config.entity_mode) \o "\""
    IN ConcatAll([i \in 1..Len(m) |->
            (IF i = 1 THEN ""
             ELSE IF is_newlines THEN "\n" \o Spaces(ctx.indent) ELSE " ") \o one(i)])

\* the open tag of ElementValue::print up to the end of the attributes
OpenTag(d, key, config, context) ==
    LET e == ValueOf(d, key)
        a == SecGet(d.attrs, key)
    IN IF IsSome(a) /\ a[1] # <<>>
       THEN LET line_length == Len(e.name) + 2 + AttrsLength(a[1], 1)
                is_newlines == context.is_pretty /\ line_length > config.max_line_length
            IN Spaces(context.indent) \o "<" \o e.name
                \o (IF is_newlines
                    THEN "\n" \o Spaces(context.indent + config.indent)
                    ELSE " ")
                \o FmtAttrs(e.name, config, context, a[1])
       ELSE Spaces(context.indent) \o "<" \o e.name

\* impl Print for NodeValue, the leaf variants
PrintLeaf(v, config, context) ==
    CASE v.kind = "Text" ->
            (IF config.indent_text_nodes /\ context.is_pretty
             THEN Spaces(context.indent) ELSE "")
            \o ProcessEntities(v.text, config.entity_mode, TRUE, TRUE)
            \o NewlineIf(config.indent_text_nodes /\ context.is_pretty)
      [] v.kind = "CData" ->
            (IF config.indent_text_nodes /\ context.is_pretty
             THEN Spaces(context.indent) ELSE "")
            \o "<![CDATA[" \o v.text \o "]]>"
            \o NewlineIf(config.indent_text_nodes /\ context.is_pretty)
      [] v.kind = "DocumentType" ->
            (IF context.is_pretty THEN Spaces(context.indent) ELSE "")
            \o "<!DOCTYPE " \o v.text \o ">" \o NewlineIf(context.is_pretty)
      [] v.kind = "Comment" ->
            (IF context.is_pretty THEN Spaces(context.indent) ELSE "")
            \o "<!--" \o ProcessEntities(v.text, config.entity_mode, TRUE, TRUE) \o "-->"
            \o NewlineIf(context.is_pretty)

\* impl Print for ElementValue and, through it, for NodeValue
RECURSIVE PrintNode(_, _, _, _)
PrintElement(d, key, config, context) ==
    LET e == ValueOf(d, key)
        a == SecGet(d.attrs, key)
        has_attrs == IsSome(a) /\ a[1] # <<>>
        has_text == \E i \in 1..Len(e.children) :
                        e.children[i].kind \in {"Text", "CDataSection"}
        child_context == IF has_text /\ ~config.indent_text_nodes
                         THEN WithoutPretty(context)
                         ELSE WithIndent(context, config)
        block == (config.indent_text_nodes \/ ~has_text) /\ context.is_pretty
    IN IF e.children = <<>>
       THEN OpenTag(d, key, config, context) \o " />" \o NewlineIf(context.is_pretty)
       ELSE OpenTag(d, key, config, context) \o ">" \o NewlineIf(block)
            \o ConcatAll([i \in 1..Len(e.children) |->
                    PrintNode(d, e.children[i].key, config, child_context)])
            \o (IF block
                THEN Spaces(context.indent) \o "</" \o e.name \o ">" \o "\n"
                ELSE "</" \o e.name \o ">" \o NewlineIf(context.is_pretty))

PrintNode(d, key, config, context) ==
    IF ValueOf(d, key).kind = "Element"
    THEN PrintElement(d, key, config, context)
    ELSE PrintLeaf(ValueOf(d, key), config, context)

\* impl Print for Document
PrintDocument(d, config, context) ==
    (IF IsSome(d.decl) THEN PrintDeclaration(d.decl[1], context) ELSE "")
        \o ConcatAll([i \in 1..Len(d.before) |-> PrintNode(d, d.before[i].key, config, context)])
        \o PrintElement(d, Root(d), config, context)
        \o ConcatAll([i \in 1..Len(d.after) |-> PrintNode(d, d.after[i].key, config, context)])

\* Document::to_string: impl Display for Document, no flags
DocToString(d) == PrintDocument(d, ConfigDefault, StateNew(ConfigDefault.is_pretty))

\* Document::to_string_pretty
ToStringPretty(d) == PrintDocument(d, ConfigDefaultPretty, StateNew(TRUE))

\* Document::to_string_pretty_with_config
ToStringPrettyWithConfig(d, config) == PrintDocument(d, config, StateNew(TRUE))

(***************************************************************************)
(* The loader: Document::from_reader over the events of quick_xml's        *)
(* Reader.  A lexeme is a piece of the input text (raw) with the event the *)
(* reader makes of it; the input text is the lexemes' raw texts in order.  *)
(***************************************************************************)
Lexeme(ev, name, at, text, raw) ==
    [ev |-> ev, name |-> name, attrs |-> at, text |-> text, raw |-> raw]

Lexemes ==
    { Lexeme("Decl", "", <<>>, "1", "<?xml version=\"1\"?>"),
      Lexeme("Decl", "", <<>>, "2", "<?xml version=\"2\"?>"),
      Lexeme("DocType", "", <<>>, "a", "<!DOCTYPE a>"),
      Lexeme("Start", "a", <<>>, "", "<a>"),
      Lexeme("Start", "b", <<[key |-> "k", value |-> "v"]>>, "", "<b k=\"v\">"),
      Lexeme("Empty", "a", <<>>, "", "<a/>"),
      Lexeme("Empty", "b", <<>>, "", "<b />"),
      Lexeme("End", "a", <<>>, "", "</a>"),
      Lexeme("End", "b", <<>>, "", "</b>"),
      Lexeme("Text", "", <<>>, "x", "x"),
      Lexeme("Text", "", <<>>, " ", " "),
      Lexeme("Comment", "", <<>>, "c", "<!--c-->"),
      Lexeme("CData", "", <<>>, "x", "<![CDATA[x]]>"),
      Lexeme("PI", "", <<>>, "k", "<?k?>"),
      Lexeme("Eof", "", <<>>, "", ""),
      Lexeme("Err", "", <<>>, "", "<") }

\* the text of an input
InputText(lexs) == ConcatAll([i \in 1..Len(lexs) |-> lexs[i].raw])

\* Reader::read_event_into: the reader keeps the names of the open tags and
\* reports an end tag that closes none of them as an error
ReaderNext(rd, lx) ==
    CASE lx.ev = "Start" -> [r |-> [opened |-> Append(rd.opened, lx.name)], ev |-> lx]
      [] lx.ev = "End" ->
            IF rd.opened # <<>> /\ rd.opened[Len(rd.opened)] = lx.name
            THEN [r |-> [opened |-> SubSeq(rd.opened, 1, Len(rd.opened) - 1)], ev |-> lx]
            ELSE [r |-> rd, ev |-> Lexeme("Err", "", <<>>, "", lx.raw)]
      [] OTHER -> [r |-> rd, ev |-> lx]

\* str::trim
RECURSIVE TrimStart(_)
TrimStart(cs) ==
    IF cs # <<>> /\ (IsAsciiWhitespace(Head(cs)) \/ IsSeparator(Head(cs)))
    THEN TrimStart(Tail(cs)) ELSE cs

RECURSIVE TrimEnd(_)
TrimEnd(cs) ==
    IF cs # <<>> /\ (IsAsciiWhitespace(cs[Len(cs)]) \/ IsSeparator(cs[Len(cs)]))
    THEN TrimEnd(SubSeq(cs, 1, Len(cs) - 1)) ELSE cs

Trim(s) == LET cs == TrimEnd(TrimStart(Chars(s))) IN
           ConcatAll([i \in 1..Len(cs) |-> CodeStr(cs[i])])

\* the attributes of a tag, set one by one
RECURSIVE SetAttributes(_, _, _, _)
SetAttributes(d, el, at, i) ==
    IF i > Len(at) THEN d
    ELSE SetAttributes(SetAttribute(d, el, at[i].key, at[i].value), el, at, i + 1)

\* the IndexMap a start tag's attributes are collected into
RECURSIVE CollectAttrs(_, _)
CollectAttrs(at, n) ==
    IF n = 0 THEN <<>> ELSE IndexMapInsert(CollectAttrs(at, n - 1), at[n].key, at[n].value)

\* before.push(Node(nodes.insert(value))), and doc.after.push
PushBefore(d, kind, text) ==
    [d EXCEPT !.nodes = SlotInsert(d.nodes, LeafValue(kind, text)),
              !.before = Append(d.before, Node(NodeKindOf(kind), SlotNextKey(d.nodes)))]

PushAfter(d, kind, text) ==
    [d EXCEPT !.nodes = SlotInsert(d.nodes, LeafValue(kind, text)),
              !.after = Append(d.after, Node(NodeKindOf(kind), SlotNextKey(d.nodes)))]

\* the state of from_reader: the document under construction, the stack and
\* where the function is
LoaderState(d, stack, at, res) == [doc |-> d, element_stack |-> stack, pc |-> at, result |-> res]

ParseError == [kind |-> "Parse", name |-> ""]

SupplementaryElement(name) == [kind |-> "SupplementaryElement", name |-> name]

\* one turn of the first loop of from_reader, which looks for the root
PrologStep(d, stack, e) ==
    CASE e.ev = "DocType" ->
            LoaderState(PushBefore(d, "DocumentType", Trim(e.text)), stack, "prolog", None)
      [] e.ev = "Decl" ->
            LoaderState([d EXCEPT !.decl = Some([version |-> Some(e.text), encoding |-> None,
                                                 standalone |-> None])],
                        stack, "prolog", None)
      [] e.ev \in {"Start", "Empty"} ->
            LET key == SlotNextKey(d.nodes)
                d1 == [d EXCEPT !.nodes = SlotInsert(d.nodes, ElementValue(e.name, <<>>)),
                                !.root_key = Some(key),
                                !.after = <<>>]
            IN LoaderState(SetAttributes(d1, key, e.attrs, 1),
                           IF e.ev = "Start" THEN Append(stack, key) ELSE stack,
                           "body", None)
      [] e.ev = "Text" ->
            IF Len(e.raw) = 0 \/ Trim(e.text) = ""
            THEN LoaderState(d, stack, "prolog", None)
            ELSE LoaderState(PushBefore(d, "Text", e.text), stack, "prolog", None)
      [] e.ev = "Comment" -> LoaderState(PushBefore(d, "Comment", e.text), stack, "prolog", None)
      [] e.ev = "CData" -> LoaderState(PushBefore(d, "CData", e.text), stack, "prolog", None)
      [] e.ev = "PI" -> LoaderState(d, stack, "prolog", None)
      [] e.ev = "Err" -> LoaderState(d, stack, "err", Some(ParseError))
      [] OTHER -> LoaderState(d, stack, "panic", None)

\* a second loop that reports a tag after the root as a parse error
BodyTagParseError(d, stack, e) ==
    IF stack = <<>>
    THEN LoaderState(d, stack, "err", Some(ParseError))
    ELSE LET parent == stack[Len(stack)]
             d1 == AppendNewElement(d, parent, e.name, CollectAttrs(e.attrs, Len(e.attrs)))
         IN LoaderState(d1,
                        IF e.ev = "Start" THEN Append(stack, SlotNextKey(d.nodes)) ELSE stack,
                        "body", None)

\* a start tag or an empty tag in the second loop
BodyTag(d, stack, e) ==
    IF stack = <<>>
    THEN LoaderState(d, stack, "err", Some(SupplementaryElement(e.name)))
    ELSE LET parent == stack[Len(stack)]
             d1 == AppendNewElement(d, parent, e.name, CollectAttrs(e.attrs, Len(e.attrs)))
         IN LoaderState(d1,
                        IF e.ev = "Start" THEN Append(stack, SlotNextKey(d.nodes)) ELSE stack,
                        "body", None)

\* a second loop that pushes every text, CDATA or comment to after
BodyLeafAfter(d, stack, kind, text) ==
    LoaderState(PushAfter(d, kind, text), stack, "body", None)

\* a text, CDATA or comment event in the second loop
BodyLeaf(d, stack, kind, text) ==
    IF stack # <<>>
    THEN LoaderState(AppendLeaf(d, stack[Len(stack)], kind, text), stack, "body", None)
    ELSE LoaderState(PushAfter(d, kind, text), stack, "body", None)

\* one turn of the second loop of from_reader
BodyStep(d, stack, e) ==
    CASE e.ev \in {"Start", "Empty"} -> BodyTag(d, stack, e)
      [] e.ev = "End" ->
            LoaderState(d, IF stack = <<>> THEN stack ELSE SubSeq(stack, 1, Len(stack) - 1),
                        "body", None)
      [] e.ev = "Text" ->
            IF Trim(e.text) # ""
            THEN BodyLeaf(d, stack, "Text", e.text)
            ELSE LoaderState(d, stack, "body", None)
      [] e.ev = "CData" -> BodyLeaf(d, stack, "CData", e.text)
      [] e.ev = "Comment" -> BodyLeaf(d, stack, "Comment", e.text)
      [] e.ev \in {"PI", "Decl", "DocType"} -> LoaderState(d, stack, "body", None)
      [] e.ev = "Eof" -> LoaderState(d, stack, "ok", None)
      [] e.ev = "Err" -> LoaderState(d, stack, "err", Some(ParseError))

\* the locals of from_reader before its first loop
EmptyDocument ==
    [nodes |-> EmptySlotMap, parents |-> EmptySecondary, attrs |-> EmptySecondary,
     root_key |-> None, before |-> <<>>, after |-> <<>>, decl |-> None]

NoCall == [op |-> "none", args |-> <<>>]

SetDoc(d) ==
    /\ nodes' = d.nodes
    /\ parents' = d.parents
    /\ attrs' = d.attrs
    /\ root_key' = d.root_key
    /\ before' = d.before
    /\ after' = d.after
    /\ decl' = d.decl

Init ==
    /\ nodes = EmptySlotMap
    /\ parents = EmptySecondary
    /\ attrs = EmptySecondary
    /\ root_key = None
    /\ before = <<>>
    /\ after = <<>>
    /\ decl = None
    /\ element_stack = <<>>
    /\ r = [opened |-> <<>>]
    /\ pc = "prolog"
    /\ result = None
    /\ input = <<>>
    /\ call = NoCall
    /\ prev = EmptyDocument
    /\ ops = 0
    /\ chars = <<>>
    /\ written = ""
    /\ heap = <<>>
    /\ roots = <<>>
    /\ ret = None

\* from_reader reads the next event while it looks for the root
ReadProlog(lx) ==
    /\ pc = "prolog"
    /\ LET rn == ReaderNext(r, lx)
           st == PrologStep(Doc, element_stack, rn.ev)
       IN /\ SetDoc(st.doc)
          /\ element_stack' = st.element_stack
          /\ pc' = st.pc
          /\ result' = st.result
          /\ r' = rn.r
    /\ input' = Append(input, lx)
    /\ UNCHANGED <<call, prev, ops, chars, written, heap, roots, ret>>

\* from_reader reads the next event after the root's tag
ReadBody(lx) ==
    /\ pc = "body"
    /\ LET rn == ReaderNext(r, lx)
           st == BodyStep(Doc, element_stack, rn.ev)
       IN /\ SetDoc(st.doc)
          /\ element_stack' = st.element_stack
          /\ pc' = st.pc
          /\ result' = st.result
          /\ r' = rn.r
    /\ input' = Append(input, lx)
    /\ UNCHANGED <<call, prev, ops, chars, written, heap, roots, ret>>

\* the loader may read while the input is short of the longest input
MoreInput == Len(input) < MaxEvents

Next ==
    \/ \E lx \in Lexemes : MoreInput /\ ReadProlog(lx)
    \/ \E lx \in Lexemes : MoreInput /\ ReadBody(lx)

Spec == Init /\ [][Next]_vars

(***************************************************************************)
(* Calls on the loaded document: the mutation API, set_doctype and sort.   *)
(***************************************************************************)
Call(op, args) == [op |-> op, args |-> args]

\* the document after a call that ran to its end
Called(op, args, d) ==
    /\ SetDoc(d)
    /\ call' = Call(op, args)
    /\ prev' = Doc
    /\ ops' = ops + 1
    /\ UNCHANGED <<element_stack, r, pc, result, input, chars, written, heap, roots, ret>>

\* a call may be made on a loaded document while the run has steps left
CanCall == pc = "ok" /\ Len(input) + ops < MaxSteps

\* an event may be read while the run has steps left
CanRead == Len(input) + ops < MaxSteps

\* the handles of the live nodes, as a caller holds them
LiveNodes(d) == {NodeOf(d, k) : k \in SlotKeys(d.nodes)}

AppendNewElementCall(parent, name, at) ==
    /\ CanCall
    /\ parent \in Elements(Doc)
    /\ SlotHasRoom(nodes)
    /\ Called("append_new_element", <<parent, name, at>>, AppendNewElement(Doc, parent, name, at))

AppendNewElementAfterCall(sibling, name, at) ==
    /\ CanCall
    /\ sibling \in Elements(Doc)
    /\ IsSome(Parent(Doc, sibling))
    /\ IsElement(Doc, Parent(Doc, sibling)[1])
    /\ SlotHasRoom(nodes)
    /\ Called("append_new_element_after", <<sibling, name, at>>,
              AppendNewElementAfter(Doc, sibling, name, at))

AppendTextCall(el, text) ==
    /\ CanCall
    /\ el \in Elements(Doc)
    /\ SlotHasRoom(nodes)
    /\ Called("append_text", <<el, text>>, AppendText(Doc, el, text))

AppendCDataCall(el, text) ==
    /\ CanCall
    /\ el \in Elements(Doc)
    /\ SlotHasRoom(nodes)
    /\ Called("append_cdata", <<el, text>>, AppendCData(Doc, el, text))

AppendCommentCall(el, text) ==
    /\ CanCall
    /\ el \in Elements(Doc)
    /\ SlotHasRoom(nodes)
    /\ Called("append_comment", <<el, text>>, AppendComment(Doc, el, text))

SetTextCall(el, text) ==
    /\ CanCall
    /\ el \in Elements(Doc)
    /\ ChildrenOf(Doc, el) # <<>> \/ SlotHasRoom(nodes)
    /\ Called("set_text", <<el, text>>, SetText(Doc, el, text))

\* append_element moves an element other than the root
AppendElementCall(parent, element) ==
    /\ CanCall
    /\ parent \in Elements(Doc)
    /\ element \in Elements(Doc)
    /\ element # Root(Doc)
    /\ Called("append_element", <<parent, element>>, AppendElement(Doc, parent, element))

RemoveChildCall(parent, node) ==
    /\ CanCall
    /\ parent \in Elements(Doc)
    /\ node \in LiveNodes(Doc)
    /\ Called("remove_child", <<parent, node>>, RemoveChild(Doc, parent, node))

SetDoctypeCall(doctype) ==
    /\ CanCall
    /\ IF IsSome(doctype)
       THEN /\ SlotHasRoom(nodes)
            /\ Called("set_doctype", <<doctype>>, SetDoctypeSome(Doc, doctype[1]))
       ELSE Called("set_doctype", <<doctype>>, SetDoctypeNone(Doc))

\* the lexemes the edited documents are loaded from
SeedLexemes == {lx \in Lexemes : lx.raw \in {"<!DOCTYPE a>", "<a>", "<a/>", "</a>", "x", ""}}

NextModel ==
    \/ \E lx \in SeedLexemes : CanRead /\ ReadProlog(lx)
    \/ \E lx \in SeedLexemes : CanRead /\ ReadBody(lx)
    \/ \E p \in Elements(Doc) : AppendNewElementCall(p, "a", <<>>)
    \/ \E e \in Elements(Doc) : AppendNewElementAfterCall(e, "a", <<>>)
    \/ \E p \in Elements(Doc) : AppendTextCall(p, "x")
    \/ \E p \in Elements(Doc) : AppendCDataCall(p, "x")
    \/ \E p \in Elements(Doc) : AppendCommentCall(p, "c")
    \/ \E p \in Elements(Doc) : SetTextCall(p, "x")
    \/ \E p \in Elements(Doc), e \in Elements(Doc) : AppendElementCall(p, e)
    \/ \E p \in Elements(Doc), n \in LiveNodes(Doc) : RemoveChildCall(p, n)
    \/ \E t \in {None, Some("b")} : SetDoctypeCall(t)

SpecModel == Init /\ [][NextModel]_vars

(***************************************************************************)
(* Canonicalizing a loaded document.                                       *)
(***************************************************************************)
\* Document::sort: a panic ends the program with the document as far as the
\* call got
SortCall(elements) ==
    /\ CanCall
    /\ LET res == Sort(Doc, elements) IN
       /\ SetDoc(res.doc)
       /\ pc' = IF res.panic THEN "panic" ELSE "ok"
    /\ call' = Call("sort", <<elements>>)
    /\ prev' = Doc
    /\ ops' = ops + 1
    /\ UNCHANGED <<element_stack, r, result, input, chars, written, heap, roots, ret>>

\* the lexemes the documents to sort are loaded from
SortLexemes ==
    { Lexeme("DocType", "", <<>>, "a", "<!DOCTYPE a>"),
      Lexeme("Start", "a", <<>>, "", "<a>"),
      Lexeme("Empty", "a", <<>>, "", "<a/>"),
      Lexeme("Empty", "b", <<>>, "", "<b/>"),
      Lexeme("Empty", "a", <<[key |-> "k", value |-> "v"], [key |-> "id", value |-> "1"]>>,
             "", "<a k=\"v\" id=\"1\"/>"),
      Lexeme("End", "a", <<>>, "", "</a>"),
      Lexeme("Text", "", <<>>, "x", "x"),
      Lexeme("Comment", "", <<>>, "c", "<!--c-->"),
      Lexeme("Eof", "", <<>>, "", "") }

NextSort ==
    \/ \E lx \in SortLexemes : CanRead /\ ReadProlog(lx)
    \/ \E lx \in SortLexemes : CanRead /\ ReadBody(lx)
    \/ \E elements \in BOOLEAN : SortCall(elements)

SpecSort == Init /\ [][NextSort]_vars

(***************************************************************************)
(* Serializing a loaded document.                                          *)
(***************************************************************************)
\* Document::to_string
ToStringCall ==
    /\ CanCall
    /\ written' = DocToString(Doc)
    /\ call' = Call("to_string", <<>>)
    /\ ops' = ops + 1
    /\ UNCHANGED <<docVars, element_stack, r, pc, result, input, prev, chars, heap, roots, ret>>

\* Document::to_string_pretty
ToStringPrettyCall ==
    /\ CanCall
    /\ written' = ToStringPretty(Doc)
    /\ call' = Call("to_string_pretty", <<>>)
    /\ ops' = ops + 1
    /\ UNCHANGED <<docVars, element_stack, r, pc, result, input, prev, chars, heap, roots, ret>>

\* Document::to_string_pretty_with_config
ToStringPrettyWithConfigCall(config) ==
    /\ CanCall
    /\ written' = ToStringPrettyWithConfig(Doc, config)
    /\ call' = Call("to_string_pretty_with_config", <<config>>)
    /\ ops' = ops + 1
    /\ UNCHANGED <<docVars, element_stack, r, pc, result, input, prev, chars, heap, roots, ret>>

\* the pretty configuration that leaves text nodes inline
ConfigInline == [ConfigDefaultPretty EXCEPT !.indent_text_nodes = FALSE]

\* a pretty configuration with lines of at most max characters
ConfigNarrow(max) == [ConfigDefaultPretty EXCEPT !.max_line_length = max]

\* the lexemes the documents to serialize are loaded from
PrintLexemes ==
    { Lexeme("Start", "a", <<>>, "", "<a>"),
      Lexeme("Empty", "b", <<>>, "", "<b/>"),
      Lexeme("Empty", "b", <<[key |-> "k", value |-> "v"]>>, "", "<b k=\"v\"/>"),
      Lexeme("Empty", "b", <<[key |-> "k", value |-> "v"], [key |-> "id", value |-> "1"]>>,
             "", "<b k=\"v\" id=\"1\"/>"),
      Lexeme("End", "a", <<>>, "", "</a>"),
      Lexeme("Text", "", <<>>, " x ", " x "),
      Lexeme("CData", "", <<>>, "x", "<![CDATA[x]]>"),
      Lexeme("Eof", "", <<>>, "", "") }

NextPrint ==
    \/ \E lx \in PrintLexemes : CanRead /\ ReadProlog(lx)
    \/ \E lx \in PrintLexemes : CanRead /\ ReadBody(lx)
    \/ ToStringCall
    \/ ToStringPrettyCall
    \/ \E config \in {ConfigInline, ConfigNarrow(12), ConfigNarrow(5)} :
          ToStringPrettyWithConfigCall(config)

SpecPrint == Init /\ [][NextPrint]_vars

(***************************************************************************)
(* Escaping a string: process_entities on its own and as fmt_attrs calls   *)
(* it for an attribute value.                                              *)
(***************************************************************************)
\* the characters the strings are made of: NUL, TAB, LF, ESC, space, the five
\* special characters, a letter, DEL, the no-break space, a letter beyond
\* ASCII and the line separator
Alphabet == {0, 9, 10, 27, 32, 34, 38, 39, 60, 62, 97, 127, 160, 233, 8232}

\* the caller builds the string, one character at a time
TypeChar(c) ==
    /\ call.op = "none"
    /\ input = <<>>
    /\ Len(chars) < MaxChars
    /\ chars' = Append(chars, c)
    /\ UNCHANGED <<docVars, element_stack, r, pc, result, input, call, prev, ops, written,
                   heap, roots, ret>>

\* process_entities(input, mode, allow_separators, is_text)
ProcessEntitiesCall(mode, allow_separators, is_text) ==
    /\ call.op = "none"
    /\ input = <<>>
    /\ written' = ProcessChars(chars, mode, allow_separators, is_text)
    /\ call' = Call("process_entities", <<mode, allow_separators, is_text>>)
    /\ UNCHANGED <<docVars, element_stack, r, pc, result, input, prev, ops, chars,
                   heap, roots, ret>>

\* fmt_attrs writes one attribute, named k, whose value is the string
FmtAttrCall(mode) ==
    /\ call.op = "none"
    /\ input = <<>>
    /\ written' = "k" \o "=\"" \o AttrValue(chars, mode) \o "\""
    /\ call' = Call("fmt_attrs", <<mode>>)
    /\ UNCHANGED <<docVars, element_stack, r, pc, result, input, prev, ops, chars,
                   heap, roots, ret>>

NextEntities ==
    \/ \E c \in Alphabet : TypeChar(c)
    \/ \E mode \in {"Standard", "Hex"}, allow_separators \in BOOLEAN, is_text \in BOOLEAN :
          ProcessEntitiesCall(mode, allow_separators, is_text)
    \/ \E mode \in {"Standard", "Hex"} : FmtAttrCall(mode)

SpecEntities == Init /\ [][NextEntities]_vars

(***************************************************************************)
(* The Rc-based tree: Element (src/src/element.rs), Node (src/src/node.rs) *)
(* and XmlemDocument (src/src/doc.rs).  An Rc<RefCell<..>> is an address   *)
(* of heap; a Node is the variant and the address it holds.                *)
(***************************************************************************)
\* Element::new: the heap with the new element at its next address
ElementNew(h, name, at, parent) ==
    Append(h, [kind |-> "Element", name |-> name, text |-> "",
               attributes |-> SortAttrTable(at), children |-> <<>>, parent |-> parent])

\* Element::new_child followed by add_attr for each attribute
NewChild(h, parent, name, at) ==
    LET h1 == ElementNew(h, name, at, Some(parent)) IN
    [h1 EXCEPT ![parent].children = Append(@, Node("Element", Len(h1)))]

\* Element::add_text(Rc::new(RefCell::new(text)))
AddText(h, el, text) ==
    LET h1 == Append(h, [kind |-> "Text", name |-> "", text |-> text,
                         attributes |-> <<>>, children |-> <<>>, parent |-> None])
    IN [h1 EXCEPT ![el].children = Append(@, Node("Text", Len(h1)))]

\* Element::from_str on one event: the loop that looks for the root, then the
\* loop that reads the root's content
ElementFromStr(h, stack, phase, e) ==
    LET at(next_pc, h1, stack1) == [heap |-> h1, element_stack |-> stack1, pc |-> next_pc]
        last == stack[Len(stack)]
    IN
    IF phase = "prolog"
    THEN CASE e.ev = "Start" -> at("body", ElementNew(h, e.name, e.attrs, None), <<Len(h) + 1>>)
           [] e.ev = "Text" /\ Trim(e.text) = "" -> at("prolog", h, stack)
           [] e.ev \in {"Decl", "DocType"} -> at("prolog", h, stack)
           [] OTHER -> at("panic", h, stack)
    ELSE CASE e.ev = "Start" ->
                IF stack = <<>> THEN at("panic", h, stack)
                ELSE at("body", NewChild(h, last, e.name, e.attrs), Append(stack, Len(h) + 1))
           [] e.ev = "Empty" ->
                IF stack = <<>> THEN at("panic", h, stack)
                ELSE at("body", NewChild(h, last, e.name, e.attrs), stack)
           [] e.ev = "End" -> at("body", h, SubSeq(stack, 1, Len(stack) - 1))
           [] e.ev = "Text" ->
                IF Trim(e.text) = "" THEN at("body", h, stack)
                ELSE IF stack = <<>> THEN at("panic", h, stack)
                ELSE at("body", AddText(h, last, e.text), stack)
           [] e.ev = "Eof" -> at("ok", h, stack)
           [] e.ev = "Err" -> at("panic", h, stack)
           [] OTHER -> at("body", h, stack)

\* Vec<Node>::clone: Node::clone on each node in turn; the clone of an
\* element node is todo!()
RECURSIVE CloneNodes(_, _)
CloneNodes(h, ns) ==
    IF ns = <<>> THEN [panic |-> FALSE, heap |-> h, nodes |-> <<>>]
    ELSE IF Head(ns).kind = "Element" THEN [panic |-> TRUE, heap |-> h, nodes |-> <<>>]
    ELSE LET h1 == Append(h, h[Head(ns).key])
             rest == CloneNodes(h1, Tail(ns))
         IN [rest EXCEPT !.nodes = <<Node("Text", Len(h1))>> \o @]

\* XmlemDocument::clone: Element::clone of the root, put in a new Rc
XmlemDocumentClone(h, root) ==
    LET c == CloneNodes(h, h[root].children) IN
    IF c.panic THEN [panic |-> TRUE, heap |-> h]
    ELSE [panic |-> FALSE,
          heap |-> Append(c.heap, [h[root] EXCEPT !.children = c.nodes, !.parent = None])]

\* XmlemDocument::from_str reads the next event
XmlemFromStrRead(lx) ==
    /\ pc \in {"prolog", "body"}
    /\ LET rn == ReaderNext(r, lx)
           st == ElementFromStr(heap, element_stack, pc, rn.ev)
       IN /\ heap' = st.heap
          /\ element_stack' = st.element_stack
          /\ pc' = st.pc
          /\ r' = rn.r
          /\ roots' = IF st.pc = "ok" THEN <<1>> ELSE roots
    /\ input' = Append(input, lx)
    /\ UNCHANGED <<docVars, result, call, prev, ops, chars, written, ret>>

\* a clone of one of the documents is made; a panic ends the program
CloneCall(i) ==
    /\ CanCall
    /\ i \in 1..Len(roots)
    /\ LET c == XmlemDocumentClone(heap, roots[i]) IN
       /\ heap' = c.heap
       /\ roots' = IF c.panic THEN roots ELSE Append(roots, Len(c.heap))
       /\ pc' = IF c.panic THEN "panic" ELSE "ok"
    /\ call' = Call("clone", <<i>>)
    /\ ops' = ops + 1
    /\ UNCHANGED <<docVars, element_stack, r, result, input, prev, chars, written, ret>>

\* add_text is called on the root of one of the documents
AddTextCall(i, text) ==
    /\ CanCall
    /\ i \in 1..Len(roots)
    /\ heap' = AddText(heap, roots[i], text)
    /\ call' = Call("add_text", <<i, text>>)
    /\ ops' = ops + 1
    /\ UNCHANGED <<docVars, element_stack, r, pc, result, input, prev, chars, written, roots, ret>>

\* the lexemes the Rc-based documents are loaded from
RcLexemes ==
    { Lexeme("Start", "a", <<>>, "", "<a>"),
      Lexeme("Start", "a", <<[key |-> "k", value |-> "v"]>>, "", "<a k=\"v\">"),
      Lexeme("Empty", "b", <<>>, "", "<b/>"),
      Lexeme("End", "a", <<>>, "", "</a>"),
      Lexeme("Text", "", <<>>, "x", "x"),
      Lexeme("Eof", "", <<>>, "", "") }

NextRc ==
    \/ \E lx \in RcLexemes : CanRead /\ XmlemFromStrRead(lx)
    \/ \E i \in 1..Len(roots) : CloneCall(i)
    \/ \E i \in 1..Len(roots) : AddTextCall(i, "x")

SpecRc == Init /\ [][NextRc]_vars

(***************************************************************************)
(* The selector engine (src/src/select.rs).  A parsed selector is a type   *)
(* selector, an attribute selector [key="value"], an id selector, :root,   *)
(* or two of these joined by the child combinator; the matching algorithm  *)
(* of the selectors crate sees the document through ElementRef.            *)
(***************************************************************************)
\* matching::matches_selector on ElementRef { document, element }
RECURSIVE MatchesSelector(_, _, _)
MatchesSelector(d, el, s) ==
    CASE s.kind = "Name" -> ValueOf(d, el).name = s.name
      [] s.kind = "Attr" -> IndexMapGet(AttributesOf(d, el), s.name) = Some(s.value)
      [] s.kind = "Id" -> IndexMapGet(AttributesOf(d, el), "id") = Some(s.value)
      [] s.kind = "Root" -> Root(d) = el
      [] s.kind = "Child" ->
            /\ MatchesSelector(d, el, s.child)
            /\ IsSome(Parent(d, el))
            /\ MatchesSelector(d, Parent(d, el)[1], s.parent)

\* matches that asks for every selector of the list
MatchesEvery(d, el, list) == \A i \in 1..Len(list) : MatchesSelector(d, el, list[i])

\* Selector::matches
Matches(d, el, list) == \E i \in 1..Len(list) : MatchesSelector(d, el, list[i])

\* Element::walk: the elements of the subtree, parents before children
RECURSIVE Walk(_, _, _)
Walk(d, el, fuel) ==
    IF fuel = 0 THEN <<el>>
    ELSE LET cs == SelectSeq(ChildrenOf(d, el), LAMBDA n : n.kind = "Element") IN
         <<el>> \o ConcatSeqs([i \in 1..Len(cs) |-> Walk(d, cs[i].key, fuel - 1)])

\* Element::query_selector_all
QueryAll(d, root, list) ==
    SelectSeq(Walk(d, root, Len(d.nodes.slots)), LAMBDA el : Matches(d, el, list))

\* Element::query_selector
QueryFirst(d, root, list) ==
    LET w == Walk(d, root, Len(d.nodes.slots)) IN
    IF \E i \in 1..Len(w) : Matches(d, w[i], list)
    THEN Some(w[CHOOSE i \in 1..Len(w) :
                   Matches(d, w[i], list) /\ \A j \in 1..(i - 1) : ~Matches(d, w[j], list)])
    ELSE None

\* a query is made on the loaded document and returns
Queried(op, args, value) ==
    /\ CanCall
    /\ ret' = value
    /\ call' = Call(op, args)
    /\ ops' = ops + 1
    /\ UNCHANGED <<docVars, element_stack, r, pc, result, input, prev, chars, written, heap, roots>>

MatchesCall(el, list) == Queried("matches", <<el, list>>, Some(Matches(Doc, el, list)))

QueryAllCall(root, list) == Queried("query_all", <<root, list>>, QueryAll(Doc, root, list))

QueryFirstCall(root, list) == Queried("query_first", <<root, list>>, QueryFirst(Doc, root, list))

\* the selector lists asked for: a, b, [k="v"], #1, the list b, #1, a > a,
\* :root > a, and c, which no element of the documents matches
SelectorLists ==
    LET name(n) == [kind |-> "Name", name |-> n] IN
    { <<name("a")>>, <<name("b")>>, <<name("c")>>,
      <<[kind |-> "Attr", name |-> "k", value |-> "v"]>>,
      <<[kind |-> "Id", value |-> "1"]>>,
      <<name("b"), [kind |-> "Id", value |-> "1"]>>,
      <<[kind |-> "Child", parent |-> name("a"), child |-> name("a")]>>,
      <<[kind |-> "Child", parent |-> [kind |-> "Root"], child |-> name("a")]>> }

NextSelect ==
    \/ \E lx \in SortLexemes : MoreInput /\ ReadProlog(lx)
    \/ \E lx \in SortLexemes : MoreInput /\ ReadBody(lx)
    \/ \E el \in Elements(Doc), list \in SelectorLists : MatchesCall(el, list)
    \/ \E el \in Elements(Doc), list \in SelectorLists : QueryAllCall(el, list)
    \/ \E el \in Elements(Doc), list \in SelectorLists : QueryFirstCall(el, list)

SpecSelect == Init /\ [][NextSelect]_vars

(***************************************************************************)
(* Comparing elements: ord_elem on its own.                                *)
(***************************************************************************)
\* the elements handed to ord_elem, each with its attribute table sorted by
\* name as sort_attrs leaves it
OrdInputs ==
    LET kv(k, v) == [key |-> k, value |-> v] IN
    { [pre |-> <<>>, elem |-> ElementNode(DocKey(1, 1)), attrs |-> at,
       elem_val |-> ElementValue(name, <<>>)] :
        name \in {"a", "b"},
        at \in { <<>>, <<kv("id", "1")>>, <<kv("id", "2")>>, <<kv("b", "")>>, <<kv("k", "v")>>,
                 <<kv("a", ""), kv("id", "2")>>, <<kv("id", "1"), kv("k", "v")>> } }

\* sort_by compares the first two of three sibling elements
OrdElemCall(ec1, ec2, ec3) ==
    /\ call.op = "none"
    /\ input = <<>>
    /\ ret' = Some(OrdElem(ec1, ec2))
    /\ call' = Call("ord_elem", <<ec1, ec2, ec3>>)
    /\ UNCHANGED <<docVars, element_stack, r, pc, result, input, prev, ops, chars, written,
                   heap, roots>>

NextOrd == \E ec1 \in OrdInputs, ec2 \in OrdInputs, ec3 \in OrdInputs : OrdElemCall(ec1, ec2, ec3)

SpecOrd == Init /\ [][NextOrd]_vars

(***************************************************************************)
(* Escaping in the Rc-based tree: the crate root's process_entities        *)
(* (src/src/lib.rs) as Display for Element calls it for an attribute value. *)
(***************************************************************************)
\* process_entities of the crate root, on the characters of the input
LibProcessEntities(cs) ==
    LET entity(c) == CASE c = 39 -> "&apos;"
                       [] c = 34 -> "&quot;"
                       [] c = 38 -> "&amp;"
                       [] c = 60 -> "&lt;"
                       [] c = 62 -> "&gt;"
                       [] OTHER -> IF IsAsciiControl(c)
                                   THEN "&#x" \o HexUpper(c) \o ";"
                                   ELSE CodeStr(c)
    IN IF \E i \in 1..Len(cs) : cs[i] \in {60, 62, 39, 34, 38}
       THEN ConcatAll([i \in 1..Len(cs) |-> entity(cs[i])])
       ELSE ConcatAll([i \in 1..Len(cs) |-> CodeStr(cs[i])])

\* Display for Element writes one attribute, named k, whose value is the string
DisplayAttrCall ==
    /\ call.op = "none"
    /\ input = <<>>
    /\ written' = " " \o "k" \o "=\"" \o LibProcessEntities(chars) \o "\""
    /\ call' = Call("display_attr", <<>>)
    /\ UNCHANGED <<docVars, element_stack, r, pc, result, input, prev, ops, chars,
                   heap, roots, ret>>

NextLib ==
    \/ \E c \in Alphabet : TypeChar(c)
    \/ DisplayAttrCall

SpecLib == Init /\ [][NextLib]_vars

(***************************************************************************)
(* The claims about loading and serializing.                               *)
(***************************************************************************)
\* whether the raw text of a lexeme is white space only
IsBlankLexeme(lx) == lx.ev = "Text" /\ Trim(lx.text) = ""

\* the input text neither starts nor ends with top-level white space
NoSurroundingWhitespace(lexs) ==
    /\ lexs # <<>>
    /\ ~IsBlankLexeme(lexs[1])
    /\ \A i \in 1..Len(lexs) :
          (lexs[i].ev = "Eof" /\ i > 1) => ~IsBlankLexeme(lexs[i - 1])

\* C1: round-trip identity: when an input text without surrounding top-level
\* white space has been parsed successfully, to_string() of the untouched
\* document is the input text, character for character.
C1_RoundTrip ==
    (pc = "ok" /\ NoSurroundingWhitespace(input)) => DocToString(Doc) = InputText(input)

\* C10: a start tag or an empty tag read after the root has closed (the stack
\* of open elements is empty) ends the loading with the error
\* SupplementaryElement carrying the tag's name, which is not a parse error.
C10_SupplementaryElement ==
    [][(/\ pc = "body"
        /\ element_stack = <<>>
        /\ Len(input') = Len(input) + 1
        /\ input'[Len(input')].ev \in {"Start", "Empty"})
       => (/\ pc' = "err"
           /\ result' = Some(SupplementaryElement(input'[Len(input')].name))
           /\ result' # Some(ParseError))]_vars

\* a second top-level tag has been read and refused
C10_Witness ==
    /\ pc = "err"
    /\ Len(input) >= 3
    /\ input[Len(input)].ev = "Start"
    /\ element_stack = <<>>
    /\ result = Some(SupplementaryElement("b"))

(***************************************************************************)
(* The claims about the document model.                                    *)
(***************************************************************************)
\* the pre-order walk of a subtree, as deep as the arena is large
RECURSIVE Subtree(_, _, _)
Subtree(d, node, fuel) ==
    IF fuel = 0 \/ node.kind # "Element" \/ ~IsElement(d, node.key)
    THEN <<node>>
    ELSE LET cs == ChildrenOf(d, node.key) IN
         <<node>> \o ConcatSeqs([i \in 1..Len(cs) |-> Subtree(d, cs[i], fuel - 1)])

\* the walk of before, the root's subtree and after
WalkAll(d) == d.before \o Subtree(d, ElementNode(Root(d)), Len(d.nodes.slots)) \o d.after

NoDuplicates(s) == \A i, j \in 1..Len(s) : s[i] = s[j] => i = j

Count(s, x) == Cardinality({i \in 1..Len(s) : s[i] = x})

C3_Detachment ==
    /\ (pc = "ok" /\ call.op = "append_element" /\ IsSome(Parent(prev, call.args[2]))) =>
          LET new_parent == call.args[1]
              e == call.args[2]
              former == Parent(prev, e)[1]
          IN /\ Parent(Doc, e) = Some(new_parent)
             /\ Count(ChildrenOf(Doc, new_parent), ElementNode(e)) = 1
             /\ (former # new_parent /\ IsElement(Doc, former)) =>
                    Count(ChildrenOf(Doc, former), ElementNode(e)) = 0
    /\ pc = "ok" =>
          \A e \in Elements(Doc) :
             Cardinality({p \in Elements(Doc) :
                             Count(ChildrenOf(Doc, p), ElementNode(e)) > 0}) <= 1
             /\ \A p \in Elements(Doc) : Count(ChildrenOf(Doc, p), ElementNode(e)) <= 1

\* an element has been moved from one live parent to another
C3_Witness ==
    /\ pc = "ok"
    /\ call.op = "append_element"
    /\ IsSome(Parent(prev, call.args[2]))
    /\ Parent(prev, call.args[2])[1] # call.args[1]
    /\ IsElement(Doc, Parent(prev, call.args[2])[1])
    /\ Count(ChildrenOf(prev, Parent(prev, call.args[2])[1]), ElementNode(call.args[2])) = 1

\* C4: remove_child(p, n) on a child n of p leaves n out of p's children,
\* without a parent and with its arena slot freed; on a node that is no child
\* of p it changes nothing: the arena, the parent table, the attribute table
\* and every children sequence are as before.
C4_RemoveChild ==
    (pc = "ok" /\ call.op = "remove_child") =>
        LET p == call.args[1]
            n == call.args[2]
        IN IF Count(ChildrenOf(prev, p), n) > 0
           THEN /\ Count(ChildrenOf(Doc, p), n) = 0
                /\ Parent(Doc, n.key) = None
                /\ ~IsLive(Doc, n.key)
                /\ SlotGet(Doc.nodes, n.key) = None
           ELSE /\ Doc.nodes = prev.nodes
                /\ Doc.parents = prev.parents
                /\ Doc.attrs = prev.attrs
                /\ Doc = prev

\* a child has been removed
C4_Witness ==
    /\ pc = "ok"
    /\ call.op = "remove_child"
    /\ Count(ChildrenOf(prev, call.args[1]), call.args[2]) > 0
    /\ IsSome(Parent(prev, call.args[2].key))

\* remove_child has been called on a node that is no child of the parent
C4_WitnessNoOp ==
    /\ pc = "ok"
    /\ call.op = "remove_child"
    /\ Count(ChildrenOf(prev, call.args[1]), call.args[2]) = 0
    /\ IsSome(Parent(prev, call.args[2].key))

(***************************************************************************)
(* The claims about the canonicalizer.                                     *)
(***************************************************************************)
IsPermutation(s, t) == \A x \in Range(s) \cup Range(t) : Count(s, x) = Count(t, x)

\* the name/value pairs of an attribute table
AttrPairs(m) == Range(m)

\* sort(true) has been called and has returned
Sorted == call.op = "sort" /\ call.args[1] /\ pc = "ok"

\* C5: sort leaves before, after and every element's children a permutation
\* of what they were, and leaves every node's payload and every attribute
\* table's name/value pairs as they were.
C5_SortPreserves ==
    (call.op = "sort" /\ pc = "ok") =>
        /\ IsPermutation(Doc.before, prev.before)
        /\ IsPermutation(Doc.after, prev.after)
        /\ SlotKeys(Doc.nodes) = SlotKeys(prev.nodes)
        /\ \A k \in SlotKeys(prev.nodes) :
              /\ ValueOf(Doc, k).kind = ValueOf(prev, k).kind
              /\ ValueOf(Doc, k).name = ValueOf(prev, k).name
              /\ ValueOf(Doc, k).text = ValueOf(prev, k).text
              /\ IsPermutation(ChildrenOf(Doc, k), ChildrenOf(prev, k))
        /\ DOMAIN Doc.attrs = DOMAIN prev.attrs
        /\ \A i \in DOMAIN prev.attrs :
              /\ AttrPairs(Doc.attrs[i].value) = AttrPairs(prev.attrs[i].value)
              /\ Len(Doc.attrs[i].value) = Len(prev.attrs[i].value)

\* C6: sort(true) applied to a document that sort(true) has produced leaves
\* its serialized output, and so its before, children and after sequences and
\* its attribute orders, as they are.
C6_SortIdempotent ==
    Sorted =>
        LET again == Sort(Doc, TRUE) IN
        /\ ~again.panic
        /\ DocToString(again.doc) = DocToString(Doc)
        /\ again.doc = Doc

\* the attribute tables that hold the pairs of m in any order
RECURSIVE Orders(_)
Orders(pairs) ==
    IF pairs = {} THEN {<<>>}
    ELSE UNION {{<<x>> \o rest : rest \in Orders(pairs \ {x})} : x \in pairs}

\* the documents that differ from d in the insertion order of attributes only
Reordered(d) ==
    {[d EXCEPT !.attrs = m2] :
        m2 \in {f \in [DOMAIN d.attrs ->
                        UNION {{[version |-> d.attrs[i].version, value |-> o] :
                                  o \in Orders(AttrPairs(d.attrs[i].value))} :
                               i \in DOMAIN d.attrs}] :
                  \A i \in DOMAIN d.attrs :
                     /\ f[i].version = d.attrs[i].version
                     /\ AttrPairs(f[i].value) = AttrPairs(d.attrs[i].value)}}

\* C7: a document that differs from the sorted one in the insertion order of
\* attributes only has, after sort(true), the same serialized output.
C7_AttrOrderInvariance ==
    Sorted =>
        \A d2 \in Reordered(prev) :
            LET other == Sort(d2, TRUE) IN
            /\ ~other.panic
            /\ DocToString(other.doc) = DocToString(Doc)

\* a document whose element has its attributes out of order has been sorted
C7_Witness ==
    /\ Sorted
    /\ \E i \in DOMAIN prev.attrs :
          /\ Len(prev.attrs[i].value) >= 2
          /\ prev.attrs[i].value # Doc.attrs[i].value
    /\ Cardinality(Reordered(prev)) >= 2

HasKind(s, kind) == \E i \in 1..Len(s) : s[i].kind = kind

\* C8: sort(true) leaves the children of every element that has both a Text
\* child and an Element child exactly as they were.
C8_MixedContentKept ==
    (call.op = "sort" /\ call.args[1]) =>
        \A e \in Elements(prev) :
            (HasKind(ChildrenOf(prev, e), "Text") /\ HasKind(ChildrenOf(prev, e), "Element"))
                => ChildrenOf(Doc, e) = ChildrenOf(prev, e)

\* the root whose children sort(true) has kept holds text between two
\* elements that the sibling sort would have exchanged
C8_Witness ==
    /\ Sorted
    /\ LET cs == ChildrenOf(prev, Root(prev)) IN
       /\ Len(cs) = 3
       /\ cs[1].kind = "Element" /\ ValueOf(prev, cs[1].key).name = "b"
       /\ cs[2].kind = "Text"
       /\ cs[3].kind = "Element" /\ ValueOf(prev, cs[3].key).name = "a"
       /\ ChildrenOf(Doc, Root(Doc)) = cs

\* the element children of an element, each with its attributes, as ord_elem
\* compares them
ElemContexts(d, e) ==
    LET cs == SelectSeq(ChildrenOf(d, e), LAMBDA n : n.kind = "Element") IN
    [i \in 1..Len(cs) |-> [pre |-> <<>>, elem |-> cs[i],
                           attrs |-> AttributesOf(d, cs[i].key),
                           elem_val |-> ValueOf(d, cs[i].key)]]

InOrder(d, e) ==
    LET ecs == ElemContexts(d, e) IN
    \A i, j \in 1..Len(ecs) : i < j => OrdElem(ecs[i], ecs[j]) # "Greater"

\* the elements of the root's subtree
SubtreeElements(d) ==
    {n.key : n \in {m \in Range(Subtree(d, ElementNode(Root(d)), Len(d.nodes.slots))) :
                       m.kind = "Element"}}

\* C9: after sort(true), the element children of every element of the root's
\* subtree that has no Text child, at whatever depth, are in non-decreasing
\* order of ord_elem.
C9_SortRecursive ==
    Sorted =>
        \A e \in SubtreeElements(Doc) :
            ~HasKind(ChildrenOf(Doc, e), "Text") => InOrder(Doc, e)

(***************************************************************************)
(* The claims about the loader's phases and its failures.                  *)
(***************************************************************************)
\* the event read last
LastEvent == input[Len(input)]

\* C11: the loader never aborts: it is looking for the root, reading the
\* root's content, or has returned a Document or a ReadError; when the end
\* of the input or an end tag arrives before any root start tag, it has
\* returned a parse error.
C11_LoaderNeverAborts ==
    /\ pc \in {"prolog", "body", "ok", "err"}
    /\ pc = "err" => IsSome(result)
    /\ (input # <<>> /\ root_key = None /\ LastEvent.ev \in {"Eof", "End"})
          => (pc = "err" /\ result = Some(ParseError))

\* an event of the given kinds is read in this step
Reads(kinds) == Len(input') = Len(input) + 1 /\ input'[Len(input')].ev \in kinds

\* a text event of white space only is read in this step
ReadsBlank == Reads({"Text"}) /\ IsBlankLexeme(input'[Len(input')])

\* a comment, a CDATA section or a text that is not blank is read in this step
ReadsLeaf == Reads({"Comment", "CData", "Text"}) /\ ~IsBlankLexeme(input'[Len(input')])

\* the node the loader makes of a comment, CDATA or text event, under the key
\* the arena gives next
LeafNodeOf(lx) == Node(NodeKindOf(lx.ev), SlotNextKey(nodes))

\* the last child of element el in the next state is the node n, after the
\* children el has now, and n's parent is el
AppendedTo(el, n) ==
    /\ ChildrenOf(Doc', el) = Append(ChildrenOf(Doc, el), n)
    /\ Parent(Doc', n.key) = Some(el)

\* the innermost open element
Innermost == element_stack[Len(element_stack)]

\* C12: a text event of white space only adds no node when no element is
\* open, and is kept as the last Text child of the innermost open element
\* when one is.
C12_WhitespaceRule ==
    [][ReadsBlank =>
          IF element_stack = <<>>
          THEN nodes' = nodes /\ before' = before /\ after' = after
          ELSE /\ AppendedTo(Innermost, Node("Text", SlotNextKey(nodes)))
               /\ ValueOf(Doc', SlotNextKey(nodes))
                     = LeafValue("Text", input'[Len(input')].text)]_vars

NoElementOutside ==
    /\ \A i \in 1..Len(before) : before[i].kind # "Element"
    /\ \A i \in 1..Len(after) : after[i].kind # "Element"

\* C13: a comment, CDATA or non-blank text event is pushed to before while
\* the root has not been seen, appended as the last child of the innermost
\* open element while one is open, and pushed to after once the root has
\* closed; a start or empty tag read while an element is open appends a new
\* element as the last child of the innermost open element; an end tag
\* closes the innermost open element; no Element is in before or after.
C13_PlacementByPhase ==
    [][LET lx == input'[Len(input')]
           key == SlotNextKey(nodes)
       IN /\ (ReadsLeaf /\ pc = "prolog") =>
                /\ before' = Append(before, LeafNodeOf(lx))
                /\ ValueOf(Doc', key) = LeafValue(lx.ev, lx.text)
                /\ after' = after
          /\ (ReadsLeaf /\ pc = "body" /\ element_stack # <<>>) =>
                /\ AppendedTo(Innermost, LeafNodeOf(lx))
                /\ ValueOf(Doc', key) = LeafValue(lx.ev, lx.text)
                /\ before' = before /\ after' = after
                /\ element_stack' = element_stack
          /\ (ReadsLeaf /\ pc = "body" /\ element_stack = <<>>) =>
                /\ after' = Append(after, LeafNodeOf(lx))
                /\ ValueOf(Doc', key) = LeafValue(lx.ev, lx.text)
                /\ before' = before
                /\ ChildrenOf(Doc', Root(Doc)) = ChildrenOf(Doc, Root(Doc))
          /\ (Reads({"Start", "Empty"}) /\ pc = "body" /\ element_stack # <<>>) =>
                /\ AppendedTo(Innermost, ElementNode(key))
                /\ ValueOf(Doc', key) = ElementValue(lx.name, <<>>)
                /\ element_stack' = IF lx.ev = "Start" THEN Append(element_stack, key)
                                    ELSE element_stack
                /\ before' = before /\ after' = after
          /\ (Reads({"End"}) /\ pc = "body" /\ pc' = "body") =>
                /\ element_stack # <<>>
                /\ element_stack' = SubSeq(element_stack, 1, Len(element_stack) - 1)
                /\ nodes' = nodes /\ before' = before /\ after' = after
          /\ NoElementOutside']_vars

\* a comment before the root, a comment inside it and the root closed
C13_Witness ==
    /\ pc = "body"
    /\ element_stack = <<>>
    /\ Len(before) = 1 /\ before[1].kind = "Comment"
    /\ Len(ChildrenOf(Doc, Root(Doc))) = 1
    /\ ChildrenOf(Doc, Root(Doc))[1].kind = "Comment"
    /\ LastEvent.ev = "End"

\* the events of the given kind, in the order they were read
EventsOf(kind) == SelectSeq(input, LAMBDA lx : lx.ev = kind)

\* the DocumentType nodes of before
DoctypesOf(d) == SelectSeq(d.before, LAMBDA n : n.kind = "DocumentType")

\* C14: the loaded document's before holds at most one DocumentType node,
\* that of the first doctype event; its declaration is that of the first
\* declaration event; processing instructions have added no node.
C14_FirstDeclAndDoctype ==
    pc = "ok" =>
        /\ Len(DoctypesOf(Doc)) <= 1
        /\ EventsOf("DocType") # <<>> =>
              /\ Len(DoctypesOf(Doc)) = 1
              /\ ValueOf(Doc, DoctypesOf(Doc)[1].key).text = Trim(EventsOf("DocType")[1].text)
        /\ decl = IF EventsOf("Decl") = <<>> THEN None
                  ELSE Some([version |-> Some(EventsOf("Decl")[1].text),
                             encoding |-> None, standalone |-> None])
        /\ \A k \in SlotKeys(nodes) : ValueOf(Doc, k).kind # "ProcessingInstruction"
        /\ Cardinality(SlotKeys(nodes))
              <= Len(SelectSeq(input, LAMBDA lx : lx.ev \notin {"PI", "Decl", "End", "Eof"}))

(***************************************************************************)
(* The claims about escaping.  The text written is read back piece by      *)
(* piece: a piece is a reference (&name; or &#x and hex digits and ;), a    *)
(* token that stands for one raw character, or one character.              *)
(***************************************************************************)
CharAt(s, i) == SubSeq(s, i, i)

\* the first index from i on where s holds ch, 0 when there is none
RECURSIVE IndexFrom(_, _, _)
IndexFrom(s, ch, i) ==
    IF i > Len(s) THEN 0
    ELSE IF CharAt(s, i) = ch THEN i
    ELSE IndexFrom(s, ch, i + 1)

UpperHexDigits ==
    {"0", "1", "2", "3", "4", "5", "6", "7", "8", "9", "A", "B", "C", "D", "E", "F"}

\* &#x, four or more upper-case hex digits, and ;
IsHexReference(p) ==
    /\ Len(p) >= 8
    /\ SubSeq(p, 1, 3) = "&#x"
    /\ CharAt(p, Len(p)) = ";"
    /\ \A i \in 4..(Len(p) - 1) : CharAt(p, i) \in UpperHexDigits

IsNamedReference(p) == p \in {"&amp;", "&lt;", "&gt;", "&apos;", "&quot;"}

\* the length of the piece s starts with
PieceLen(s) ==
    LET ch == CharAt(s, 1)
        close == IF ch = "&" THEN IndexFrom(s, ";", 2)
                 ELSE IF ch = "{" THEN IndexFrom(s, "}", 2)
                 ELSE IF ch = "[" THEN IndexFrom(s, "]", 2)
                 ELSE 1
    IN IF ch = "&"
       THEN (IF close > 0 /\ (IsNamedReference(SubSeq(s, 1, close))
                               \/ IsHexReference(SubSeq(s, 1, close)))
             THEN close ELSE 1)
       ELSE IF close > 0 THEN close ELSE 1

RECURSIVE Pieces(_)
Pieces(s) ==
    IF s = "" THEN <<>>
    ELSE <<SubSeq(s, 1, PieceLen(s))>> \o Pieces(SubSeq(s, PieceLen(s) + 1, Len(s)))

\* a piece that is a raw ASCII control character
IsRawControl(p) == p \in {"\t", "\n"} \/ CharAt(p, 1) = "{"

\* a piece that is a raw special character
IsRawSpecial(p) == p \in {"<", ">", "&", "\"", "'"}

\* what fmt_attrs wrote between the double quotes of the attribute k
BetweenQuotes == SubSeq(written, 4, Len(written) - 1)

\* C15: in both entity modes, what fmt_attrs writes between the double quotes
\* of an attribute holds no raw ASCII control character and no raw <, >, &,
\* " or ', and holds the reference &#x0000; for every null character of the
\* value.
C15_AttrValueSafe ==
    call.op = "fmt_attrs" =>
        LET ps == Pieces(BetweenQuotes) IN
        /\ SubSeq(written, 1, 3) = "k=\""
        /\ CharAt(written, Len(written)) = "\""
        /\ \A i \in 1..Len(ps) : ~IsRawControl(ps[i]) /\ ~IsRawSpecial(ps[i])
        /\ Count(ps, "&#x0000;") = Count(chars, 0)

\* an attribute value of a null character, a double quote and a tab has been
\* written in Hex mode
C15_Witness ==
    /\ call.op = "fmt_attrs"
    /\ call.args = <<"Hex">>
    /\ chars = <<0, 34, 9>>
    /\ written = "k=\"&#x0000;&#x0022;&#x0009;\""

\* the number a string of upper-case hex digits writes
HexDigitValue(ch) ==
    CASE ch = "0" -> 0 [] ch = "1" -> 1 [] ch = "2" -> 2 [] ch = "3" -> 3
      [] ch = "4" -> 4 [] ch = "5" -> 5 [] ch = "6" -> 6 [] ch = "7" -> 7
      [] ch = "8" -> 8 [] ch = "9" -> 9 [] ch = "A" -> 10 [] ch = "B" -> 11
      [] ch = "C" -> 12 [] ch = "D" -> 13 [] ch = "E" -> 14 [] ch = "F" -> 15

RECURSIVE HexNumber(_)
HexNumber(ds) ==
    IF ds = "" THEN 0
    ELSE 16 * HexNumber(SubSeq(ds, 1, Len(ds) - 1)) + HexDigitValue(CharAt(ds, Len(ds)))

\* the code point a hex reference names
HexValue(p) == HexNumber(SubSeq(p, 4, Len(p) - 1))

\* the piece p is a hex reference of four or more digits to the character c
IsHexReferenceTo(p, c) == IsHexReference(p) /\ HexValue(p) = c

\* C16: process_entities writes, in Standard mode, & < > as &amp; &lt; &gt;
\* and ' " as &apos; &quot; in an attribute value but as themselves in
\* text; in Hex mode the five special characters as hex references; a space
\* as itself; a no-break space as a hex reference; any other character as
\* itself or as &#x, four or more zero-padded upper-case hex digits of its
\* code point, and ;.  A string of characters that need no escape comes back
\* unchanged.
C16_EntityModes ==
    call.op = "process_entities" =>
        LET mode == call.args[1]
            is_text == call.args[3]
            ps == Pieces(written)
        IN /\ Len(ps) = Len(chars)
           /\ \A i \in 1..Len(chars) :
                 LET c == chars[i]
                     p == ps[i]
                 IN CASE c = 38 -> p = IF mode = "Standard" THEN "&amp;" ELSE "&#x0026;"
                      [] c = 60 -> p = IF mode = "Standard" THEN "&lt;" ELSE "&#x003C;"
                      [] c = 62 -> p = IF mode = "Standard" THEN "&gt;" ELSE "&#x003E;"
                      [] c = 39 -> p = IF mode = "Hex" THEN "&#x0027;"
                                     ELSE IF is_text THEN "'" ELSE "&apos;"
                      [] c = 34 -> p = IF mode = "Hex" THEN "&#x0022;"
                                     ELSE IF is_text THEN "\"" ELSE "&quot;"
                      [] c = 32 -> p = " "
                      [] c = 160 -> IsHexReferenceTo(p, 160)
                      [] OTHER -> p = CodeStr(c) \/ IsHexReferenceTo(p, c)
           /\ (\A i \in 1..Len(chars) : chars[i] \in {32, 97, 233})
                 => written = ConcatAll([i \in 1..Len(chars) |-> CodeStr(chars[i])])

\* a text of an apostrophe, a no-break space and an ampersand has been
\* escaped in Standard mode
C16_Witness ==
    /\ call.op = "process_entities"
    /\ call.args = <<"Standard", TRUE, TRUE>>
    /\ chars = <<39, 160, 38>>
    /\ written = "'&#x00A0;&amp;"

(***************************************************************************)
(* The claims about the serializer's layout.                               *)
(***************************************************************************)
\* the document is its root element alone
RootAlone == before = <<>> /\ after = <<>> /\ decl = None

\* the attributes of element el as the serializer writes them on one line
AttrsText(el, config) ==
    FmtAttrs(ValueOf(Doc, el).name, config, StateNew(FALSE), AttributesOf(Doc, el))

\* the children of element el written without pretty printing
ChildrenText(el, config) ==
    LET plain == [config EXCEPT !.is_pretty = FALSE]
        cs == ChildrenOf(Doc, el)
    IN ConcatAll([i \in 1..Len(cs) |-> PrintNode(Doc, cs[i].key, plain, StateNew(FALSE))])

\* C17: to_string() writes an element without children as <name/> when it
\* has no attributes and as <name attrs /> when it has some, and an element
\* with children as its open tag, its children and its close tag.
C17_EmptyElement ==
    (call.op = "to_string" /\ RootAlone) =>
        LET el == Root(Doc)
            name == ValueOf(Doc, el).name
            at == AttributesOf(Doc, el)
        IN /\ (ChildrenOf(Doc, el) = <<>> /\ at = <<>>) => written = "<" \o name \o "/>"
           /\ (ChildrenOf(Doc, el) = <<>> /\ at # <<>>) =>
                 written = "<" \o name \o " " \o AttrsText(el, ConfigDefault) \o " />"
           /\ ChildrenOf(Doc, el) # <<>> =>
                 written = "<" \o name
                             \o (IF at = <<>> THEN "" ELSE " " \o AttrsText(el, ConfigDefault))
                             \o ">" \o ChildrenText(el, ConfigDefault)
                             \o "</" \o name \o ">"

\* C18: to_string_pretty() writes an element whose only child is a Text node
\* as the open tag on a line, the text without its leading and trailing
\* white space on a line indented one level, and the close tag on a line.
C18_LoneTextTrimmed ==
    (/\ call.op = "to_string_pretty"
     /\ RootAlone
     /\ AttributesOf(Doc, Root(Doc)) = <<>>
     /\ Len(ChildrenOf(Doc, Root(Doc))) = 1
     /\ ChildrenOf(Doc, Root(Doc))[1].kind = "Text") =>
        LET name == ValueOf(Doc, Root(Doc)).name
            text == ValueOf(Doc, ChildrenOf(Doc, Root(Doc))[1].key).text
        IN written = "<" \o name \o ">" \o "\n"
                        \o Spaces(ConfigDefaultPretty.indent) \o Trim(text) \o "\n"
                        \o "</" \o name \o ">" \o "\n"

\* text t occurs in text s
Occurs(t, s) == \E i \in 1..(Len(s) - Len(t) + 1) : SubSeq(s, i, i + Len(t) - 1) = t

\* C19: with is_pretty and without indent_text_nodes, what is written between
\* the open tag and the close tag of every element that has a Text or CDATA
\* child, at any depth, is the serialization of its children without pretty
\* printing: no newline and no indentation is put in.
C19_InlineSubtree ==
    (/\ call.op = "to_string_pretty_with_config"
     /\ call.args[1].is_pretty
     /\ ~call.args[1].indent_text_nodes) =>
        \A el \in SubtreeElements(Doc) :
            (HasKind(ChildrenOf(Doc, el), "Text") \/ HasKind(ChildrenOf(Doc, el), "CDataSection"))
                => Occurs(">" \o ChildrenText(el, call.args[1])
                              \o "</" \o ValueOf(Doc, el).name \o ">",
                          written)

(***************************************************************************)
(* The claims about the doctype.                                           *)
(***************************************************************************)
\* the indices of before that hold a DocumentType node
DoctypePlaces(d) == {i \in 1..Len(d.before) : d.before[i].kind = "DocumentType"}

\* C20: on a document whose before holds at most one DocumentType,
\* set_doctype(Some(v)) puts a new DocumentType in the place of the one
\* there is, the other entries and their order kept, or at index 0 when
\* there is none, and then doctype() is v and before holds one DocumentType;
\* set_doctype(None) removes the DocumentType if there is one, the other
\* entries kept in order, and then doctype() is none.
C20_SetDoctype ==
    (call.op = "set_doctype" /\ Cardinality(DoctypePlaces(prev)) <= 1) =>
        LET doctype == call.args[1]
            others == SelectSeq(prev.before, LAMBDA n : n.kind # "DocumentType")
        IN IF IsSome(doctype)
           THEN /\ IF DoctypePlaces(prev) # {}
                   THEN /\ Len(before) = Len(prev.before)
                        /\ DoctypePlaces(Doc) = DoctypePlaces(prev)
                        /\ \A i \in 1..Len(before) :
                              i \notin DoctypePlaces(prev) => before[i] = prev.before[i]
                   ELSE /\ before[1].kind = "DocumentType"
                        /\ Tail(before) = prev.before
                /\ \A i \in DoctypePlaces(Doc) : ValueOf(Doc, before[i].key).text = doctype[1]
                /\ Doctype(Doc) = doctype
                /\ Cardinality(DoctypePlaces(Doc)) = 1
           ELSE /\ before = others
                /\ Doctype(Doc) = None

\* the doctype after a text of before has been replaced in its place
C20_Witness ==
    /\ call.op = "set_doctype"
    /\ call.args[1] = Some("b")
    /\ Len(prev.before) = 2
    /\ prev.before[1].kind = "Text"
    /\ Doctype(prev) = Some("a")
    /\ before[1] = prev.before[1]
    /\ before[2].kind = "DocumentType"
    /\ Doctype(Doc) = Some("b")

(***************************************************************************)
(* Stale handles.                                                          *)
(***************************************************************************)
\* every key the arena can have handed out within the bounds of a run: the
\* version of a key is odd
KeyUniverse == {DocKey(i, 2 * n + 1) : i \in 1..MaxSlots, n \in 0..MaxSteps}

\* a key whose node has been removed: its slot has moved on to a later version
Stale(sm, k) == k.idx \in 1..Len(sm.slots) /\ sm.slots[k.idx].version > k.version

\* the slot of the key holds a node now
SlotOccupied(sm, k) == k.idx \in 1..Len(sm.slots) /\ sm.slots[k.idx].version % 2 = 1

RECURSIVE TreeOf(_, _, _)
TreeOf(h, a, fuel) ==
    IF fuel = 0 THEN <<>>
    ELSE [kind |-> h[a].kind, name |-> h[a].name, text |-> h[a].text,
          attributes |-> h[a].attributes,
          children |-> [i \in 1..Len(h[a].children) |->
                           TreeOf(h, h[a].children[i].key, fuel - 1)]]

\* the addresses a document reaches from an address
RECURSIVE Reach(_, _, _)
Reach(h, a, fuel) ==
    IF fuel = 0 THEN {a}
    ELSE {a} \cup UNION {Reach(h, h[a].children[i].key, fuel - 1) : i \in 1..Len(h[a].children)}

\* the last step was a call of the operation
Did(op) == call'.op = op /\ ops' = ops + 1

\* C22: cloning a document always completes, also when the root has element
\* children, and yields a deep, independent copy: the clone holds the same
\* tree as the original at addresses of its own, and a mutation of one
\* document leaves every other document's tree as it was.
C22_CloneDeep ==
    [][/\ Did("clone") =>
            /\ pc' = "ok"
            /\ Len(roots') = Len(roots) + 1
            /\ TreeOf(heap', roots'[Len(roots')], MaxSteps)
                  = TreeOf(heap, roots[call'.args[1]], MaxSteps)
            /\ \A j \in 1..Len(roots) :
                  /\ TreeOf(heap', roots[j], MaxSteps) = TreeOf(heap, roots[j], MaxSteps)
                  /\ Reach(heap', roots'[Len(roots')], MaxSteps)
                        \cap Reach(heap', roots[j], MaxSteps) = {}
       /\ Did("add_text") =>
            \A j \in 1..Len(roots) :
                j # call'.args[1]
                    => TreeOf(heap', roots[j], MaxSteps) = TreeOf(heap, roots[j], MaxSteps)]_vars

(***************************************************************************)
(* Selector queries.                                                       *)
(***************************************************************************)
\* the elements of the pre-order walk of a subtree that satisfy at least one
\* selector of the list, in the order of the walk
Expected(d, root, list) ==
    LET w == Subtree(d, ElementNode(root), Len(d.nodes.slots))
        hits == SelectSeq(w, LAMBDA n :
                    /\ n.kind = "Element"
                    /\ \E i \in 1..Len(list) : MatchesSelector(d, n.key, list[i]))
    IN [i \in 1..Len(hits) |-> hits[i].key]

\* C23: matches is true iff the element satisfies at least one selector of
\* the list; query_all returns exactly the elements of the pre-order walk
\* under the root that match, in walk order; query_first returns the first
\* element of query_all, or none when there is none; none of the three
\* changes the document.
C23_SelectorQueries ==
    [][/\ Did("matches") =>
            /\ ret' = Some(\E i \in 1..Len(call'.args[2]) :
                              MatchesSelector(Doc, call'.args[1], call'.args[2][i]))
            /\ Doc' = Doc
       /\ Did("query_all") =>
            /\ ret' = Expected(Doc, call'.args[1], call'.args[2])
            /\ Doc' = Doc
       /\ Did("query_first") =>
            /\ ret' = (IF Expected(Doc, call'.args[1], call'.args[2]) = <<>> THEN None
                       ELSE Some(Expected(Doc, call'.args[1], call'.args[2])[1]))
            /\ Doc' = Doc]_vars

\* query_all on the root with a list of two selectors has returned two
\* elements, of which the first satisfies only the second selector and the
\* second only the first
C23_Witness ==
    /\ call.op = "query_all"
    /\ Len(call.args[2]) = 2
    /\ Len(ret) = 2
    /\ call.args[1] = Root(Doc)
    /\ ~MatchesSelector(Doc, ret[1], call.args[2][1])
    /\ ~MatchesSelector(Doc, ret[2], call.args[2][2])

(***************************************************************************)
(* The ordering of elements.                                               *)
(***************************************************************************)
Reverse(o) == CASE o = "Less" -> "Greater" [] o = "Greater" -> "Less" [] OTHER -> "Equal"

\* a is ordered before b or with it
Leq(a, b) == OrdElem(a, b) # "Greater"

\* C24: the ordering of elements used by the sibling sort is a total
\* pre-order over elements with name-sorted attribute tables: the result for
\* (b, a) is the reverse of the result for (a, b); a <= b and b <= c imply
\* a <= c; elements with the same name and attributes compare equal.
C24_TotalPreorder ==
    call.op = "ord_elem" =>
        LET a == call.args[1]
            b == call.args[2]
            c == call.args[3]
        IN /\ ret = Some(OrdElem(a, b))
           /\ OrdElem(b, a) = Reverse(OrdElem(a, b))
           /\ (Leq(a, b) /\ Leq(b, c)) => Leq(a, c)
           /\ (a.elem_val = b.elem_val /\ a.attrs = b.attrs) => OrdElem(a, b) = "Equal"

\* the projected length of the open tag of element el on one line
Projected(el) ==
    LET at == AttributesOf(Doc, el) IN
    Len(ValueOf(Doc, el).name) + 2
        + Len(ConcatAll([i \in 1..Len(at) |-> at[i].key \o at[i].value \o "=\"\" "]))

\* C25: the first attribute is written on the tag's own line, one space after
\* the tag name; when the state is pretty and the projected length of the tag
\* on one line is more than max_line_length, every attribute after the first
\* starts on a line of its own, indented one level deeper than the tag;
\* otherwise the attributes are separated by one space.
C25_AttributeWrapping ==
    (/\ call.op = "to_string_pretty_with_config"
     /\ RootAlone
     /\ ChildrenOf(Doc, Root(Doc)) = <<>>
     /\ AttributesOf(Doc, Root(Doc)) # <<>>) =>
        LET el == Root(Doc)
            config == call.args[1]
            at == AttributesOf(Doc, el)
            one(i) == at[i].key \o "=\"" \o at[i].value \o "\""
            sep == IF Projected(el) > config.max_line_length
                   THEN "\n" \o Spaces(config.indent) ELSE " "
        IN written = "<" \o ValueOf(Doc, el).name \o " " \o one(1)
                        \o ConcatAll([i \in 1..(Len(at) - 1) |-> sep \o one(i + 1)])
                        \o " />" \o "\n"

\* a Comment or CDataSection node
IsPre(n) == n.kind \in {"Comment", "CDataSection"}

\* the element the node at place i of the sequence is attached to: the first
\* element after it with only Comment and CDataSection nodes in between, 0 when
\* there is none
AttachedTo(s, i) ==
    LET es == {e \in (i + 1)..Len(s) :
                  s[e].kind = "Element" /\ \A j \in (i + 1)..(e - 1) : IsPre(s[j])}
    IN IF es = {} THEN 0 ELSE CHOOSE e \in es : \A f \in es : e <= f

\* C26: when sort(true) has sorted a sibling sequence that contains no Text
\* node, each Comment or CDataSection node that directly preceded an element
\* E in the input occurs exactly once in the output, attached to E and
\* before it, and the Text and ProcessingInstruction nodes follow the last
\* element.
C26_ContextAttachment ==
    (Sorted /\ IsSome(prev.root_key)) =>
        LET old == ChildrenOf(prev, Root(prev))
            new == ChildrenOf(Doc, Root(Doc))
        IN (Len(old) >= 2 /\ NoDuplicates(old) /\ ~HasKind(old, "Text")) =>
              /\ \A i \in 1..Len(old) :
                    (IsPre(old[i]) /\ AttachedTo(old, i) # 0) =>
                        /\ Count(new, old[i]) = 1
                        /\ AttachedTo(new, Position(new, old[i])) # 0
                        /\ new[AttachedTo(new, Position(new, old[i]))]
                              = old[AttachedTo(old, i)]
              /\ \A i, j \in 1..Len(new) :
                    (new[i].kind = "Element" /\ new[j].kind \in {"Text", "ProcessingInstruction"})
                        => i < j

\* the names of an attribute table are in ascending order
Ascending(m) == \A i \in 1..(Len(m) - 1) : CmpStr(m[i].key, m[i + 1].key) = "Less"

\* C27: sort(d, false) changes only the order of the entries inside attribute
\* tables: every table ends up in ascending order of its names with the same
\* name/value pairs, and before, after, every node's payload and children,
\* the parent table and the declaration are unchanged.
C27_SortAttrsOnly ==
    (call.op = "sort" /\ ~call.args[1]) =>
        /\ pc = "ok"
        /\ DOMAIN Doc.attrs = DOMAIN prev.attrs
        /\ \A i \in DOMAIN prev.attrs :
              /\ Doc.attrs[i].version = prev.attrs[i].version
              /\ Ascending(Doc.attrs[i].value)
              /\ AttrPairs(Doc.attrs[i].value) = AttrPairs(prev.attrs[i].value)
              /\ Len(Doc.attrs[i].value) = Len(prev.attrs[i].value)
        /\ Doc.before = prev.before
        /\ Doc.after = prev.after
        /\ Doc.nodes = prev.nodes
        /\ Doc.parents = prev.parents
        /\ Doc.decl = prev.decl
        /\ Doc.root_key = prev.root_key

\* sort(d, false) has put the attributes of an element in order on a
\* document whose root has an element child after a comment
C27_Witness ==
    /\ call.op = "sort"
    /\ ~call.args[1]
    /\ \E i \in DOMAIN prev.attrs :
          /\ ~Ascending(prev.attrs[i].value)
          /\ Doc.attrs[i].value # prev.attrs[i].value
    /\ Len(ChildrenOf(Doc, Root(Doc))) >= 2
    /\ HasKind(ChildrenOf(Doc, Root(Doc)), "Comment")

\* C28: sort(d, true) completes without aborting on every loaded document,
\* also when before holds a DocumentType node together with another node.
C28_SortCompletes ==
    (call.op = "sort" /\ call.args[1]) => pc = "ok"

\* the keys of the nodes reachable from before, the root's subtree and after
Reachable(d) == {WalkAll(d)[i].key : i \in 1..Len(WalkAll(d))}

\* C29: after any sequence of set_doctype(Some), set_doctype(None) and sort
\* calls on a loaded document, every node live in the arena is reachable from
\* before, the root's subtree or after; set_doctype(None) frees the slot of
\* the DocumentType node it removes from before.
C29_NoOrphans ==
    (pc = "ok" /\ call.op \in {"none", "set_doctype", "sort"}) =>
        SlotKeys(nodes) \subseteq Reachable(Doc)

(***************************************************************************)
(* Escaping in the Rc-based tree.                                          *)
(***************************************************************************)
\* the number of places where s holds the text t
Occurrences(t, s) ==
    Cardinality({i \in 1..(Len(s) - Len(t) + 1) : SubSeq(s, i, i + Len(t) - 1) = t})

\* C30: the Display of the Rc-based Element never writes a raw ASCII control
\* character inside an attribute value: every ASCII control character of the
\* value is replaced by a hex numeric reference, whether or not the value
\* also holds one of < > ' " &.
C30_LibControlEscaped ==
    call.op = "display_attr" =>
        LET value == SubSeq(written, 5, Len(written) - 1)
            ps == Pieces(value)
        IN /\ SubSeq(written, 1, 4) = " k=\""
           /\ \A i \in 1..Len(ps) : ~IsRawControl(ps[i])
           /\ Occurrences("&#x", value)
                 = Cardinality({i \in 1..Len(chars) : IsAsciiControl(chars[i])})

====
